---------------------------- MODULE Spec2Model ----------------------------
(***************************************************************************)
(* A model of scripts/daily_tweet.py: the daily post pipeline              *)
(* run_daily_tweet (content selection, media resolution, posting) and the  *)
(* pure helpers it is built from.                                          *)
(*                                                                         *)
(* A Python str is a sequence of one-character strings, so that len(),     *)
(* slicing, strip() and split() are computed character by character.  An   *)
(* Optional[str] is Nothing (<< >>) or Just(s) (<< s >>).  A file-system   *)
(* path is an atom (a TLA+ string); an absent path is None.                *)
(*                                                                         *)
(* What surrounds a run is part of the state: the date, os.environ,        *)
(* whether Pillow and requests can be imported, whether the tips file is   *)
(* there and decodes as UTF-8, which directories exist, and what the news  *)
(* feed, the image search and tweepy answer.  An exception that nothing in *)
(* run_daily_tweet catches ends the run at "raised".                       *)
(***************************************************************************)
EXTENDS Integers, Sequences, FiniteSets, TLC

None == "None"
Nothing == << >>
Just(s) == << s >>

Min(a, b) == IF a <= b THEN a ELSE b
Max(a, b) == IF a >= b THEN a ELSE b

---------------------------------------------------------------------------
(* hashlib.sha256 on a message of at most 55 bytes (one 512-bit block; an  *)
(* ISO date is 10 bytes).  A 32-bit word is a pair <<hi, lo>> of 16-bit    *)
(* halves, so that no intermediate value leaves the 32-bit integers.       *)

RECURSIVE BitXor(_, _)
BitXor(a, b) ==
    IF a = 0 THEN b
    ELSE IF b = 0 THEN a
    ELSE ((a + b) % 2) + 2 * BitXor(a \div 2, b \div 2)

RECURSIVE BitAnd(_, _)
BitAnd(a, b) ==
    IF a = 0 \/ b = 0 THEN 0
    ELSE ((a % 2) * (b % 2)) + 2 * BitAnd(a \div 2, b \div 2)

Xor32(x, y) == << BitXor(x[1], y[1]), BitXor(x[2], y[2]) >>
And32(x, y) == << BitAnd(x[1], y[1]), BitAnd(x[2], y[2]) >>
Not32(x) == << 65535 - x[1], 65535 - x[2] >>
Add32(x, y) ==
    LET lo == x[2] + y[2]
    IN  << (x[1] + y[1] + (lo \div 65536)) % 65536, lo % 65536 >>

\* rotate right by n, 0 <= n < 32
Rotr32(x, n) ==
    LET y == IF n >= 16 THEN << x[2], x[1] >> ELSE x
        k == n % 16
        p == 2 ^ k
        q == 2 ^ (16 - k)
    IN  IF k = 0 THEN y
        ELSE << (y[1] \div p) + (y[2] % p) * q, (y[2] \div p) + (y[1] % p) * q >>

\* shift right by n, 0 < n < 16
Shr32(x, n) ==
    LET p == 2 ^ n
        q == 2 ^ (16 - n)
    IN  << x[1] \div p, (x[2] \div p) + (x[1] % p) * q >>

Sha256K ==
    << <<17034, 12184>>, <<28983, 17553>>, <<46528, 64463>>, <<59829, 56229>>,
       <<14678, 49755>>, <<23025, 4593>>, <<37439, 33444>>, <<43804, 24277>>,
       <<55303, 43672>>, <<4739, 23297>>, <<9265, 34238>>, <<21772, 32195>>,
       <<29374, 23924>>, <<32990, 45566>>, <<39900, 1703>>, <<49563, 61812>>,
       <<58523, 27073>>, <<61374, 18310>>, <<4033, 40390>>, <<9228, 41420>>,
       <<11753, 11375>>, <<19060, 33962>>, <<23728, 43484>>, <<30457, 35034>>,
       <<38974, 20818>>, <<43057, 50797>>, <<45059, 10184>>, <<48985, 32711>>,
       <<50912, 3059>>, <<54695, 37191>>, <<1738, 25425>>, <<5161, 10599>>,
       <<10167, 2693>>, <<11803, 8504>>, <<19756, 28156>>, <<21304, 3347>>,
       <<25866, 29524>>, <<30314, 2747>>, <<33218, 51502>>, <<37490, 11397>>,
       <<41663, 59553>>, <<43034, 26187>>, <<49739, 35696>>, <<51052, 20899>>,
       <<53650, 59417>>, <<54937, 1572>>, <<62478, 13701>>, <<4202, 41072>>,
       <<6564, 49430>>, <<7735, 27656>>, <<10056, 30540>>, <<13488, 48309>>,
       <<14620, 3251>>, <<20184, 43594>>, <<23452, 51791>>, <<26670, 28659>>,
       <<29839, 33518>>, <<30885, 25455>>, <<33992, 30740>>, <<36039, 520>>,
       <<37054, 65530>>, <<42064, 27883>>, <<48889, 41975>>, <<50801, 30962>> >>

Sha256H0 ==
    << <<27145, 58983>>, <<47975, 44677>>, <<15470, 62322>>, <<42319, 62778>>,
       <<20750, 21119>>, <<39685, 26764>>, <<8067, 55723>>, <<23520, 52505>> >>

Sha256Pad(msg) ==
    LET n == Len(msg)
    IN  msg \o << 128 >> \o [i \in 1..(55 - n) |-> 0]
            \o << 0, 0, 0, 0, 0, 0, (8 * n) \div 256, (8 * n) % 256 >>

Sha256Words(block) ==
    [t \in 1..16 |-> << block[4 * t - 3] * 256 + block[4 * t - 2],
                        block[4 * t - 1] * 256 + block[4 * t] >>]

RECURSIVE Sha256Schedule(_)
Sha256Schedule(w) ==
    IF Len(w) >= 64 THEN w
    ELSE LET t == Len(w) + 1
             w15 == w[t - 15]
             w2 == w[t - 2]
             s0 == Xor32(Xor32(Rotr32(w15, 7), Rotr32(w15, 18)), Shr32(w15, 3))
             s1 == Xor32(Xor32(Rotr32(w2, 17), Rotr32(w2, 19)), Shr32(w2, 10))
         IN  Sha256Schedule(Append(w, Add32(Add32(w[t - 16], s0), Add32(w[t - 7], s1))))

\* one round: h is the working state <<a, b, c, d, e, f, g, h>>
Sha256Round(h, k, w) ==
    LET a == h[1]
        e == h[5]
        S1 == Xor32(Xor32(Rotr32(e, 6), Rotr32(e, 11)), Rotr32(e, 25))
        ch == Xor32(And32(e, h[6]), And32(Not32(e), h[7]))
        t1 == Add32(Add32(Add32(h[8], S1), Add32(ch, k)), w)
        S0 == Xor32(Xor32(Rotr32(a, 2), Rotr32(a, 13)), Rotr32(a, 22))
        maj == Xor32(Xor32(And32(a, h[2]), And32(a, h[3])), And32(h[2], h[3]))
        t2 == Add32(S0, maj)
    IN  << Add32(t1, t2), a, h[2], h[3], Add32(h[4], t1), e, h[6], h[7] >>

\* the 64 rounds as a loop over the state [t: next round, h: working state]
RECURSIVE Sha256Rounds(_, _)
Sha256Rounds(st, w) ==
    IF st.t > 64 THEN st.h
    ELSE Sha256Rounds([t |-> st.t + 1,
                       h |-> Sha256Round(st.h, Sha256K[st.t], w[st.t])], w)

\* the digest as 8 words
Sha256(msg) ==
    LET w == Sha256Schedule(Sha256Words(Sha256Pad(msg)))
        h == Sha256Rounds([t |-> 1, h |-> Sha256H0], w)
    IN  [i \in 1..8 |-> Add32(Sha256H0[i], h[i])]

\* digest[:8]: the bytes of the first two words
DigestFirst8(msg) ==
    LET d == Sha256(msg)
    IN  << d[1][1] \div 256, d[1][1] % 256, d[1][2] \div 256, d[1][2] % 256,
           d[2][1] \div 256, d[2][1] % 256, d[2][2] \div 256, d[2][2] % 256 >>

---------------------------------------------------------------------------
(* datetime.date: a record [y, m, d]; isoformat() is "YYYY-MM-DD".         *)

IsLeap(y) == (y % 4 = 0 /\ y % 100 # 0) \/ y % 400 = 0

DaysInMonth(y, m) ==
    IF m = 2 THEN (IF IsLeap(y) THEN 29 ELSE 28)
    ELSE IF m \in {4, 6, 9, 11} THEN 30 ELSE 31

NextDay(date) ==
    IF date.d < DaysInMonth(date.y, date.m) THEN [date EXCEPT !.d = @ + 1]
    ELSE IF date.m < 12 THEN [y |-> date.y, m |-> date.m + 1, d |-> 1]
    ELSE [y |-> date.y + 1, m |-> 1, d |-> 1]

\* the UTF-8 bytes of date.isoformat()
AsciiDigit(n) == 48 + n
IsoFormatBytes(date) ==
    << AsciiDigit(date.y \div 1000), AsciiDigit((date.y \div 100) % 10),
       AsciiDigit((date.y \div 10) % 10), AsciiDigit(date.y % 10), 45,
       AsciiDigit(date.m \div 10), AsciiDigit(date.m % 10), 45,
       AsciiDigit(date.d \div 10), AsciiDigit(date.d % 10) >>

\* int.from_bytes(bytes, "big") % total, without leaving the 32-bit integers
RECURSIVE BigEndianMod(_, _, _)
BigEndianMod(bytes, total, acc) ==
    IF bytes = << >> THEN acc
    ELSE BigEndianMod(Tail(bytes), total, (acc * 256 + Head(bytes)) % total)


---------------------------------------------------------------------------
(* str methods.  None of them recurses over the characters.                *)

\* A character is a string: the character itself when it is printable ASCII
\* (but "U+0060" for the grave accent), its escape for tab, newline, form
\* feed and carriage return, and "U+XXXX", its code point, otherwise; so a
\* character written in one place is ASCII.  The case tables below are
\* those of Unicode 14.0.0, which str.lower() of Python 3.11 follows.

\* the characters str.strip() and str.split() treat as whitespace
Whitespace ==
    {
      "\t", "\n", "U+000B", "\f", "\r", "U+001C", "U+001D", "U+001E",
      "U+001F", " ", "U+0085", "U+00A0", "U+1680", "U+2000", "U+2001",
      "U+2002", "U+2003", "U+2004", "U+2005", "U+2006", "U+2007", "U+2008",
      "U+2009", "U+200A", "U+2028", "U+2029", "U+202F", "U+205F", "U+3000"
    }
IsSpace(c) ==
    IF Len(c) = 1 THEN c \in {" ", "\t", "\n", "\r", "\f"} ELSE c \in Whitespace

\* the one character U+2026 (HORIZONTAL ELLIPSIS)
Ellipsis == "U+2026"

\* s[:n] for n >= 0
Prefix(s, n) == SubSeq(s, 1, Min(n, Len(s)))

rstrip(s) ==
    LET n == CHOOSE i \in 0..Len(s) :
                 /\ i = 0 \/ ~IsSpace(s[i])
                 /\ \A j \in (i + 1)..Len(s) : IsSpace(s[j])
    IN  SubSeq(s, 1, n)

lstrip(s) ==
    LET n == CHOOSE i \in 1..(Len(s) + 1) :
                 /\ i = Len(s) + 1 \/ ~IsSpace(s[i])
                 /\ \A j \in 1..(i - 1) : IsSpace(s[j])
    IN  SubSeq(s, n, Len(s))

strip(s) == lstrip(rstrip(s))

\* the k-th smallest element of a set of integers
Nth(S, k) == CHOOSE i \in S : Cardinality({j \in S : j < i}) = k - 1

\* s.split(): the maximal runs of non-whitespace characters, in order
split(s) ==
    LET starts == {i \in 1..Len(s) : ~IsSpace(s[i]) /\ (i = 1 \/ IsSpace(s[i - 1]))}
        ends == {i \in 1..Len(s) : ~IsSpace(s[i]) /\ (i = Len(s) \/ IsSpace(s[i + 1]))}
    IN  [k \in 1..Cardinality(starts) |-> SubSeq(s, Nth(starts, k), Nth(ends, k))]

\* sep.join(words)
RECURSIVE join(_, _)
join(sep, words) ==
    IF Len(words) = 0 THEN << >>
    ELSE IF Len(words) = 1 THEN words[1]
    ELSE words[1] \o sep \o join(sep, Tail(words))

UpperCase ==
    << "A", "B", "C", "D", "E", "F", "G", "H", "I", "J", "K", "L", "M",
       "N", "O", "P", "Q", "R", "S", "T", "U", "V", "W", "X", "Y", "Z" >>
LowerCase ==
    << "a", "b", "c", "d", "e", "f", "g", "h", "i", "j", "k", "l", "m",
       "n", "o", "p", "q", "r", "s", "t", "u", "v", "w", "x", "y", "z" >>

\* the other characters str.lower() changes into one character, and what
\* it changes each into
UpperCaseOther ==
    <<
      "U+00C0", "U+00C1", "U+00C2", "U+00C3", "U+00C4", "U+00C5", "U+00C6",
      "U+00C7", "U+00C8", "U+00C9", "U+00CA", "U+00CB", "U+00CC", "U+00CD",
      "U+00CE", "U+00CF", "U+00D0", "U+00D1", "U+00D2", "U+00D3", "U+00D4",
      "U+00D5", "U+00D6", "U+00D8", "U+00D9", "U+00DA", "U+00DB", "U+00DC",
      "U+00DD", "U+00DE", "U+0100", "U+0102", "U+0104", "U+0106", "U+0108",
      "U+010A", "U+010C", "U+010E", "U+0110", "U+0112", "U+0114", "U+0116",
      "U+0118", "U+011A", "U+011C", "U+011E", "U+0120", "U+0122", "U+0124",
      "U+0126", "U+0128", "U+012A", "U+012C", "U+012E", "U+0132", "U+0134",
      "U+0136", "U+0139", "U+013B", "U+013D", "U+013F", "U+0141", "U+0143",
      "U+0145", "U+0147", "U+014A", "U+014C", "U+014E", "U+0150", "U+0152",
      "U+0154", "U+0156", "U+0158", "U+015A", "U+015C", "U+015E", "U+0160",
      "U+0162", "U+0164", "U+0166", "U+0168", "U+016A", "U+016C", "U+016E",
      "U+0170", "U+0172", "U+0174", "U+0176", "U+0178", "U+0179", "U+017B",
      "U+017D", "U+0181", "U+0182", "U+0184", "U+0186", "U+0187", "U+0189",
      "U+018A", "U+018B", "U+018E", "U+018F", "U+0190", "U+0191", "U+0193",
      "U+0194", "U+0196", "U+0197", "U+0198", "U+019C", "U+019D", "U+019F",
      "U+01A0", "U+01A2", "U+01A4", "U+01A6", "U+01A7", "U+01A9", "U+01AC",
      "U+01AE", "U+01AF", "U+01B1", "U+01B2", "U+01B3", "U+01B5", "U+01B7",
      "U+01B8", "U+01BC", "U+01C4", "U+01C5", "U+01C7", "U+01C8", "U+01CA",
      "U+01CB", "U+01CD", "U+01CF", "U+01D1", "U+01D3", "U+01D5", "U+01D7",
      "U+01D9", "U+01DB", "U+01DE", "U+01E0", "U+01E2", "U+01E4", "U+01E6",
      "U+01E8", "U+01EA", "U+01EC", "U+01EE", "U+01F1", "U+01F2", "U+01F4",
      "U+01F6", "U+01F7", "U+01F8", "U+01FA", "U+01FC", "U+01FE", "U+0200",
      "U+0202", "U+0204", "U+0206", "U+0208", "U+020A", "U+020C", "U+020E",
      "U+0210", "U+0212", "U+0214", "U+0216", "U+0218", "U+021A", "U+021C",
      "U+021E", "U+0220", "U+0222", "U+0224", "U+0226", "U+0228", "U+022A",
      "U+022C", "U+022E", "U+0230", "U+0232", "U+023A", "U+023B", "U+023D",
      "U+023E", "U+0241", "U+0243", "U+0244", "U+0245", "U+0246", "U+0248",
      "U+024A", "U+024C", "U+024E", "U+0370", "U+0372", "U+0376", "U+037F",
      "U+0386", "U+0388", "U+0389", "U+038A", "U+038C", "U+038E", "U+038F",
      "U+0391", "U+0392", "U+0393", "U+0394", "U+0395", "U+0396", "U+0397",
      "U+0398", "U+0399", "U+039A", "U+039B", "U+039C", "U+039D", "U+039E",
      "U+039F", "U+03A0", "U+03A1", "U+03A4", "U+03A5", "U+03A6", "U+03A7",
      "U+03A8", "U+03A9", "U+03AA", "U+03AB", "U+03CF", "U+03D8", "U+03DA",
      "U+03DC", "U+03DE", "U+03E0", "U+03E2", "U+03E4", "U+03E6", "U+03E8",
      "U+03EA", "U+03EC", "U+03EE", "U+03F4", "U+03F7", "U+03F9", "U+03FA",
      "U+03FD", "U+03FE", "U+03FF", "U+0400", "U+0401", "U+0402", "U+0403",
      "U+0404", "U+0405", "U+0406", "U+0407", "U+0408", "U+0409", "U+040A",
      "U+040B", "U+040C", "U+040D", "U+040E", "U+040F", "U+0410", "U+0411",
      "U+0412", "U+0413", "U+0414", "U+0415", "U+0416", "U+0417", "U+0418",
      "U+0419", "U+041A", "U+041B", "U+041C", "U+041D", "U+041E", "U+041F",
      "U+0420", "U+0421", "U+0422", "U+0423", "U+0424", "U+0425", "U+0426",
      "U+0427", "U+0428", "U+0429", "U+042A", "U+042B", "U+042C", "U+042D",
      "U+042E", "U+042F", "U+0460", "U+0462", "U+0464", "U+0466", "U+0468",
      "U+046A", "U+046C", "U+046E", "U+0470", "U+0472", "U+0474", "U+0476",
      "U+0478", "U+047A", "U+047C", "U+047E", "U+0480", "U+048A", "U+048C",
      "U+048E", "U+0490", "U+0492", "U+0494", "U+0496", "U+0498", "U+049A",
      "U+049C", "U+049E", "U+04A0", "U+04A2", "U+04A4", "U+04A6", "U+04A8",
      "U+04AA", "U+04AC", "U+04AE", "U+04B0", "U+04B2", "U+04B4", "U+04B6",
      "U+04B8", "U+04BA", "U+04BC", "U+04BE", "U+04C0", "U+04C1", "U+04C3",
      "U+04C5", "U+04C7", "U+04C9", "U+04CB", "U+04CD", "U+04D0", "U+04D2",
      "U+04D4", "U+04D6", "U+04D8", "U+04DA", "U+04DC", "U+04DE", "U+04E0",
      "U+04E2", "U+04E4", "U+04E6", "U+04E8", "U+04EA", "U+04EC", "U+04EE",
      "U+04F0", "U+04F2", "U+04F4", "U+04F6", "U+04F8", "U+04FA", "U+04FC",
      "U+04FE", "U+0500", "U+0502", "U+0504", "U+0506", "U+0508", "U+050A",
      "U+050C", "U+050E", "U+0510", "U+0512", "U+0514", "U+0516", "U+0518",
      "U+051A", "U+051C", "U+051E", "U+0520", "U+0522", "U+0524", "U+0526",
      "U+0528", "U+052A", "U+052C", "U+052E", "U+0531", "U+0532", "U+0533",
      "U+0534", "U+0535", "U+0536", "U+0537", "U+0538", "U+0539", "U+053A",
      "U+053B", "U+053C", "U+053D", "U+053E", "U+053F", "U+0540", "U+0541",
      "U+0542", "U+0543", "U+0544", "U+0545", "U+0546", "U+0547", "U+0548",
      "U+0549", "U+054A", "U+054B", "U+054C", "U+054D", "U+054E", "U+054F",
      "U+0550", "U+0551", "U+0552", "U+0553", "U+0554", "U+0555", "U+0556",
      "U+10A0", "U+10A1", "U+10A2", "U+10A3", "U+10A4", "U+10A5", "U+10A6",
      "U+10A7", "U+10A8", "U+10A9", "U+10AA", "U+10AB", "U+10AC", "U+10AD",
      "U+10AE", "U+10AF", "U+10B0", "U+10B1", "U+10B2", "U+10B3", "U+10B4",
      "U+10B5", "U+10B6", "U+10B7", "U+10B8", "U+10B9", "U+10BA", "U+10BB",
      "U+10BC", "U+10BD", "U+10BE", "U+10BF", "U+10C0", "U+10C1", "U+10C2",
      "U+10C3", "U+10C4", "U+10C5", "U+10C7", "U+10CD", "U+13A0", "U+13A1",
      "U+13A2", "U+13A3", "U+13A4", "U+13A5", "U+13A6", "U+13A7", "U+13A8",
      "U+13A9", "U+13AA", "U+13AB", "U+13AC", "U+13AD", "U+13AE", "U+13AF",
      "U+13B0", "U+13B1", "U+13B2", "U+13B3", "U+13B4", "U+13B5", "U+13B6",
      "U+13B7", "U+13B8", "U+13B9", "U+13BA", "U+13BB", "U+13BC", "U+13BD",
      "U+13BE", "U+13BF", "U+13C0", "U+13C1", "U+13C2", "U+13C3", "U+13C4",
      "U+13C5", "U+13C6", "U+13C7", "U+13C8", "U+13C9", "U+13CA", "U+13CB",
      "U+13CC", "U+13CD", "U+13CE", "U+13CF", "U+13D0", "U+13D1", "U+13D2",
      "U+13D3", "U+13D4", "U+13D5", "U+13D6", "U+13D7", "U+13D8", "U+13D9",
      "U+13DA", "U+13DB", "U+13DC", "U+13DD", "U+13DE", "U+13DF", "U+13E0",
      "U+13E1", "U+13E2", "U+13E3", "U+13E4", "U+13E5", "U+13E6", "U+13E7",
      "U+13E8", "U+13E9", "U+13EA", "U+13EB", "U+13EC", "U+13ED", "U+13EE",
      "U+13EF", "U+13F0", "U+13F1", "U+13F2", "U+13F3", "U+13F4", "U+13F5",
      "U+1C90", "U+1C91", "U+1C92", "U+1C93", "U+1C94", "U+1C95", "U+1C96",
      "U+1C97", "U+1C98", "U+1C99", "U+1C9A", "U+1C9B", "U+1C9C", "U+1C9D",
      "U+1C9E", "U+1C9F", "U+1CA0", "U+1CA1", "U+1CA2", "U+1CA3", "U+1CA4",
      "U+1CA5", "U+1CA6", "U+1CA7", "U+1CA8", "U+1CA9", "U+1CAA", "U+1CAB",
      "U+1CAC", "U+1CAD", "U+1CAE", "U+1CAF", "U+1CB0", "U+1CB1", "U+1CB2",
      "U+1CB3", "U+1CB4", "U+1CB5", "U+1CB6", "U+1CB7", "U+1CB8", "U+1CB9",
      "U+1CBA", "U+1CBD", "U+1CBE", "U+1CBF", "U+1E00", "U+1E02", "U+1E04",
      "U+1E06", "U+1E08", "U+1E0A", "U+1E0C", "U+1E0E", "U+1E10", "U+1E12",
      "U+1E14", "U+1E16", "U+1E18", "U+1E1A", "U+1E1C", "U+1E1E", "U+1E20",
      "U+1E22", "U+1E24", "U+1E26", "U+1E28", "U+1E2A", "U+1E2C", "U+1E2E",
      "U+1E30", "U+1E32", "U+1E34", "U+1E36", "U+1E38", "U+1E3A", "U+1E3C",
      "U+1E3E", "U+1E40", "U+1E42", "U+1E44", "U+1E46", "U+1E48", "U+1E4A",
      "U+1E4C", "U+1E4E", "U+1E50", "U+1E52", "U+1E54", "U+1E56", "U+1E58",
      "U+1E5A", "U+1E5C", "U+1E5E", "U+1E60", "U+1E62", "U+1E64", "U+1E66",
      "U+1E68", "U+1E6A", "U+1E6C", "U+1E6E", "U+1E70", "U+1E72", "U+1E74",
      "U+1E76", "U+1E78", "U+1E7A", "U+1E7C", "U+1E7E", "U+1E80", "U+1E82",
      "U+1E84", "U+1E86", "U+1E88", "U+1E8A", "U+1E8C", "U+1E8E", "U+1E90",
      "U+1E92", "U+1E94", "U+1E9E", "U+1EA0", "U+1EA2", "U+1EA4", "U+1EA6",
      "U+1EA8", "U+1EAA", "U+1EAC", "U+1EAE", "U+1EB0", "U+1EB2", "U+1EB4",
      "U+1EB6", "U+1EB8", "U+1EBA", "U+1EBC", "U+1EBE", "U+1EC0", "U+1EC2",
      "U+1EC4", "U+1EC6", "U+1EC8", "U+1ECA", "U+1ECC", "U+1ECE", "U+1ED0",
      "U+1ED2", "U+1ED4", "U+1ED6", "U+1ED8", "U+1EDA", "U+1EDC", "U+1EDE",
      "U+1EE0", "U+1EE2", "U+1EE4", "U+1EE6", "U+1EE8", "U+1EEA", "U+1EEC",
      "U+1EEE", "U+1EF0", "U+1EF2", "U+1EF4", "U+1EF6", "U+1EF8", "U+1EFA",
      "U+1EFC", "U+1EFE", "U+1F08", "U+1F09", "U+1F0A", "U+1F0B", "U+1F0C",
      "U+1F0D", "U+1F0E", "U+1F0F", "U+1F18", "U+1F19", "U+1F1A", "U+1F1B",
      "U+1F1C", "U+1F1D", "U+1F28", "U+1F29", "U+1F2A", "U+1F2B", "U+1F2C",
      "U+1F2D", "U+1F2E", "U+1F2F", "U+1F38", "U+1F39", "U+1F3A", "U+1F3B",
      "U+1F3C", "U+1F3D", "U+1F3E", "U+1F3F", "U+1F48", "U+1F49", "U+1F4A",
      "U+1F4B", "U+1F4C", "U+1F4D", "U+1F59", "U+1F5B", "U+1F5D", "U+1F5F",
      "U+1F68", "U+1F69", "U+1F6A", "U+1F6B", "U+1F6C", "U+1F6D", "U+1F6E",
      "U+1F6F", "U+1F88", "U+1F89", "U+1F8A", "U+1F8B", "U+1F8C", "U+1F8D",
      "U+1F8E", "U+1F8F", "U+1F98", "U+1F99", "U+1F9A", "U+1F9B", "U+1F9C",
      "U+1F9D", "U+1F9E", "U+1F9F", "U+1FA8", "U+1FA9", "U+1FAA", "U+1FAB",
      "U+1FAC", "U+1FAD", "U+1FAE", "U+1FAF", "U+1FB8", "U+1FB9", "U+1FBA",
      "U+1FBB", "U+1FBC", "U+1FC8", "U+1FC9", "U+1FCA", "U+1FCB", "U+1FCC",
      "U+1FD8", "U+1FD9", "U+1FDA", "U+1FDB", "U+1FE8", "U+1FE9", "U+1FEA",
      "U+1FEB", "U+1FEC", "U+1FF8", "U+1FF9", "U+1FFA", "U+1FFB", "U+1FFC",
      "U+2126", "U+212A", "U+212B", "U+2132", "U+2160", "U+2161", "U+2162",
      "U+2163", "U+2164", "U+2165", "U+2166", "U+2167", "U+2168", "U+2169",
      "U+216A", "U+216B", "U+216C", "U+216D", "U+216E", "U+216F", "U+2183",
      "U+24B6", "U+24B7", "U+24B8", "U+24B9", "U+24BA", "U+24BB", "U+24BC",
      "U+24BD", "U+24BE", "U+24BF", "U+24C0", "U+24C1", "U+24C2", "U+24C3",
      "U+24C4", "U+24C5", "U+24C6", "U+24C7", "U+24C8", "U+24C9", "U+24CA",
      "U+24CB", "U+24CC", "U+24CD", "U+24CE", "U+24CF", "U+2C00", "U+2C01",
      "U+2C02", "U+2C03", "U+2C04", "U+2C05", "U+2C06", "U+2C07", "U+2C08",
      "U+2C09", "U+2C0A", "U+2C0B", "U+2C0C", "U+2C0D", "U+2C0E", "U+2C0F",
      "U+2C10", "U+2C11", "U+2C12", "U+2C13", "U+2C14", "U+2C15", "U+2C16",
      "U+2C17", "U+2C18", "U+2C19", "U+2C1A", "U+2C1B", "U+2C1C", "U+2C1D",
      "U+2C1E", "U+2C1F", "U+2C20", "U+2C21", "U+2C22", "U+2C23", "U+2C24",
      "U+2C25", "U+2C26", "U+2C27", "U+2C28", "U+2C29", "U+2C2A", "U+2C2B",
      "U+2C2C", "U+2C2D", "U+2C2E", "U+2C2F", "U+2C60", "U+2C62", "U+2C63",
      "U+2C64", "U+2C67", "U+2C69", "U+2C6B", "U+2C6D", "U+2C6E", "U+2C6F",
      "U+2C70", "U+2C72", "U+2C75", "U+2C7E", "U+2C7F", "U+2C80", "U+2C82",
      "U+2C84", "U+2C86", "U+2C88", "U+2C8A", "U+2C8C", "U+2C8E", "U+2C90",
      "U+2C92", "U+2C94", "U+2C96", "U+2C98", "U+2C9A", "U+2C9C", "U+2C9E",
      "U+2CA0", "U+2CA2", "U+2CA4", "U+2CA6", "U+2CA8", "U+2CAA", "U+2CAC",
      "U+2CAE", "U+2CB0", "U+2CB2", "U+2CB4", "U+2CB6", "U+2CB8", "U+2CBA",
      "U+2CBC", "U+2CBE", "U+2CC0", "U+2CC2", "U+2CC4", "U+2CC6", "U+2CC8",
      "U+2CCA", "U+2CCC", "U+2CCE", "U+2CD0", "U+2CD2", "U+2CD4", "U+2CD6",
      "U+2CD8", "U+2CDA", "U+2CDC", "U+2CDE", "U+2CE0", "U+2CE2", "U+2CEB",
      "U+2CED", "U+2CF2", "U+A640", "U+A642", "U+A644", "U+A646", "U+A648",
      "U+A64A", "U+A64C", "U+A64E", "U+A650", "U+A652", "U+A654", "U+A656",
      "U+A658", "U+A65A", "U+A65C", "U+A65E", "U+A660", "U+A662", "U+A664",
      "U+A666", "U+A668", "U+A66A", "U+A66C", "U+A680", "U+A682", "U+A684",
      "U+A686", "U+A688", "U+A68A", "U+A68C", "U+A68E", "U+A690", "U+A692",
      "U+A694", "U+A696", "U+A698", "U+A69A", "U+A722", "U+A724", "U+A726",
      "U+A728", "U+A72A", "U+A72C", "U+A72E", "U+A732", "U+A734", "U+A736",
      "U+A738", "U+A73A", "U+A73C", "U+A73E", "U+A740", "U+A742", "U+A744",
      "U+A746", "U+A748", "U+A74A", "U+A74C", "U+A74E", "U+A750", "U+A752",
      "U+A754", "U+A756", "U+A758", "U+A75A", "U+A75C", "U+A75E", "U+A760",
      "U+A762", "U+A764", "U+A766", "U+A768", "U+A76A", "U+A76C", "U+A76E",
      "U+A779", "U+A77B", "U+A77D", "U+A77E", "U+A780", "U+A782", "U+A784",
      "U+A786", "U+A78B", "U+A78D", "U+A790", "U+A792", "U+A796", "U+A798",
      "U+A79A", "U+A79C", "U+A79E", "U+A7A0", "U+A7A2", "U+A7A4", "U+A7A6",
      "U+A7A8", "U+A7AA", "U+A7AB", "U+A7AC", "U+A7AD", "U+A7AE", "U+A7B0",
      "U+A7B1", "U+A7B2", "U+A7B3", "U+A7B4", "U+A7B6", "U+A7B8", "U+A7BA",
      "U+A7BC", "U+A7BE", "U+A7C0", "U+A7C2", "U+A7C4", "U+A7C5", "U+A7C6",
      "U+A7C7", "U+A7C9", "U+A7D0", "U+A7D6", "U+A7D8", "U+A7F5", "U+FF21",
      "U+FF22", "U+FF23", "U+FF24", "U+FF25", "U+FF26", "U+FF27", "U+FF28",
      "U+FF29", "U+FF2A", "U+FF2B", "U+FF2C", "U+FF2D", "U+FF2E", "U+FF2F",
      "U+FF30", "U+FF31", "U+FF32", "U+FF33", "U+FF34", "U+FF35", "U+FF36",
      "U+FF37", "U+FF38", "U+FF39", "U+FF3A", "U+10400", "U+10401", "U+10402",
      "U+10403", "U+10404", "U+10405", "U+10406", "U+10407", "U+10408", "U+10409",
      "U+1040A", "U+1040B", "U+1040C", "U+1040D", "U+1040E", "U+1040F", "U+10410",
      "U+10411", "U+10412", "U+10413", "U+10414", "U+10415", "U+10416", "U+10417",
      "U+10418", "U+10419", "U+1041A", "U+1041B", "U+1041C", "U+1041D", "U+1041E",
      "U+1041F", "U+10420", "U+10421", "U+10422", "U+10423", "U+10424", "U+10425",
      "U+10426", "U+10427", "U+104B0", "U+104B1", "U+104B2", "U+104B3", "U+104B4",
      "U+104B5", "U+104B6", "U+104B7", "U+104B8", "U+104B9", "U+104BA", "U+104BB",
      "U+104BC", "U+104BD", "U+104BE", "U+104BF", "U+104C0", "U+104C1", "U+104C2",
      "U+104C3", "U+104C4", "U+104C5", "U+104C6", "U+104C7", "U+104C8", "U+104C9",
      "U+104CA", "U+104CB", "U+104CC", "U+104CD", "U+104CE", "U+104CF", "U+104D0",
      "U+104D1", "U+104D2", "U+104D3", "U+10570", "U+10571", "U+10572", "U+10573",
      "U+10574", "U+10575", "U+10576", "U+10577", "U+10578", "U+10579", "U+1057A",
      "U+1057C", "U+1057D", "U+1057E", "U+1057F", "U+10580", "U+10581", "U+10582",
      "U+10583", "U+10584", "U+10585", "U+10586", "U+10587", "U+10588", "U+10589",
      "U+1058A", "U+1058C", "U+1058D", "U+1058E", "U+1058F", "U+10590", "U+10591",
      "U+10592", "U+10594", "U+10595", "U+10C80", "U+10C81", "U+10C82", "U+10C83",
      "U+10C84", "U+10C85", "U+10C86", "U+10C87", "U+10C88", "U+10C89", "U+10C8A",
      "U+10C8B", "U+10C8C", "U+10C8D", "U+10C8E", "U+10C8F", "U+10C90", "U+10C91",
      "U+10C92", "U+10C93", "U+10C94", "U+10C95", "U+10C96", "U+10C97", "U+10C98",
      "U+10C99", "U+10C9A", "U+10C9B", "U+10C9C", "U+10C9D", "U+10C9E", "U+10C9F",
      "U+10CA0", "U+10CA1", "U+10CA2", "U+10CA3", "U+10CA4", "U+10CA5", "U+10CA6",
      "U+10CA7", "U+10CA8", "U+10CA9", "U+10CAA", "U+10CAB", "U+10CAC", "U+10CAD",
      "U+10CAE", "U+10CAF", "U+10CB0", "U+10CB1", "U+10CB2", "U+118A0", "U+118A1",
      "U+118A2", "U+118A3", "U+118A4", "U+118A5", "U+118A6", "U+118A7", "U+118A8",
      "U+118A9", "U+118AA", "U+118AB", "U+118AC", "U+118AD", "U+118AE", "U+118AF",
      "U+118B0", "U+118B1", "U+118B2", "U+118B3", "U+118B4", "U+118B5", "U+118B6",
      "U+118B7", "U+118B8", "U+118B9", "U+118BA", "U+118BB", "U+118BC", "U+118BD",
      "U+118BE", "U+118BF", "U+16E40", "U+16E41", "U+16E42", "U+16E43", "U+16E44",
      "U+16E45", "U+16E46", "U+16E47", "U+16E48", "U+16E49", "U+16E4A", "U+16E4B",
      "U+16E4C", "U+16E4D", "U+16E4E", "U+16E4F", "U+16E50", "U+16E51", "U+16E52",
      "U+16E53", "U+16E54", "U+16E55", "U+16E56", "U+16E57", "U+16E58", "U+16E59",
      "U+16E5A", "U+16E5B", "U+16E5C", "U+16E5D", "U+16E5E", "U+16E5F", "U+1E900",
      "U+1E901", "U+1E902", "U+1E903", "U+1E904", "U+1E905", "U+1E906", "U+1E907",
      "U+1E908", "U+1E909", "U+1E90A", "U+1E90B", "U+1E90C", "U+1E90D", "U+1E90E",
      "U+1E90F", "U+1E910", "U+1E911", "U+1E912", "U+1E913", "U+1E914", "U+1E915",
      "U+1E916", "U+1E917", "U+1E918", "U+1E919", "U+1E91A", "U+1E91B", "U+1E91C",
      "U+1E91D", "U+1E91E", "U+1E91F", "U+1E920", "U+1E921"
    >>
LowerCaseOther ==
    <<
      "U+00E0", "U+00E1", "U+00E2", "U+00E3", "U+00E4", "U+00E5", "U+00E6",
      "U+00E7", "U+00E8", "U+00E9", "U+00EA", "U+00EB", "U+00EC", "U+00ED",
      "U+00EE", "U+00EF", "U+00F0", "U+00F1", "U+00F2", "U+00F3", "U+00F4",
      "U+00F5", "U+00F6", "U+00F8", "U+00F9", "U+00FA", "U+00FB", "U+00FC",
      "U+00FD", "U+00FE", "U+0101", "U+0103", "U+0105", "U+0107", "U+0109",
      "U+010B", "U+010D", "U+010F", "U+0111", "U+0113", "U+0115", "U+0117",
      "U+0119", "U+011B", "U+011D", "U+011F", "U+0121", "U+0123", "U+0125",
      "U+0127", "U+0129", "U+012B", "U+012D", "U+012F", "U+0133", "U+0135",
      "U+0137", "U+013A", "U+013C", "U+013E", "U+0140", "U+0142", "U+0144",
      "U+0146", "U+0148", "U+014B", "U+014D", "U+014F", "U+0151", "U+0153",
      "U+0155", "U+0157", "U+0159", "U+015B", "U+015D", "U+015F", "U+0161",
      "U+0163", "U+0165", "U+0167", "U+0169", "U+016B", "U+016D", "U+016F",
      "U+0171", "U+0173", "U+0175", "U+0177", "U+00FF", "U+017A", "U+017C",
      "U+017E", "U+0253", "U+0183", "U+0185", "U+0254", "U+0188", "U+0256",
      "U+0257", "U+018C", "U+01DD", "U+0259", "U+025B", "U+0192", "U+0260",
      "U+0263", "U+0269", "U+0268", "U+0199", "U+026F", "U+0272", "U+0275",
      "U+01A1", "U+01A3", "U+01A5", "U+0280", "U+01A8", "U+0283", "U+01AD",
      "U+0288", "U+01B0", "U+028A", "U+028B", "U+01B4", "U+01B6", "U+0292",
      "U+01B9", "U+01BD", "U+01C6", "U+01C6", "U+01C9", "U+01C9", "U+01CC",
      "U+01CC", "U+01CE", "U+01D0", "U+01D2", "U+01D4", "U+01D6", "U+01D8",
      "U+01DA", "U+01DC", "U+01DF", "U+01E1", "U+01E3", "U+01E5", "U+01E7",
      "U+01E9", "U+01EB", "U+01ED", "U+01EF", "U+01F3", "U+01F3", "U+01F5",
      "U+0195", "U+01BF", "U+01F9", "U+01FB", "U+01FD", "U+01FF", "U+0201",
      "U+0203", "U+0205", "U+0207", "U+0209", "U+020B", "U+020D", "U+020F",
      "U+0211", "U+0213", "U+0215", "U+0217", "U+0219", "U+021B", "U+021D",
      "U+021F", "U+019E", "U+0223", "U+0225", "U+0227", "U+0229", "U+022B",
      "U+022D", "U+022F", "U+0231", "U+0233", "U+2C65", "U+023C", "U+019A",
      "U+2C66", "U+0242", "U+0180", "U+0289", "U+028C", "U+0247", "U+0249",
      "U+024B", "U+024D", "U+024F", "U+0371", "U+0373", "U+0377", "U+03F3",
      "U+03AC", "U+03AD", "U+03AE", "U+03AF", "U+03CC", "U+03CD", "U+03CE",
      "U+03B1", "U+03B2", "U+03B3", "U+03B4", "U+03B5", "U+03B6", "U+03B7",
      "U+03B8", "U+03B9", "U+03BA", "U+03BB", "U+03BC", "U+03BD", "U+03BE",
      "U+03BF", "U+03C0", "U+03C1", "U+03C4", "U+03C5", "U+03C6", "U+03C7",
      "U+03C8", "U+03C9", "U+03CA", "U+03CB", "U+03D7", "U+03D9", "U+03DB",
      "U+03DD", "U+03DF", "U+03E1", "U+03E3", "U+03E5", "U+03E7", "U+03E9",
      "U+03EB", "U+03ED", "U+03EF", "U+03B8", "U+03F8", "U+03F2", "U+03FB",
      "U+037B", "U+037C", "U+037D", "U+0450", "U+0451", "U+0452", "U+0453",
      "U+0454", "U+0455", "U+0456", "U+0457", "U+0458", "U+0459", "U+045A",
      "U+045B", "U+045C", "U+045D", "U+045E", "U+045F", "U+0430", "U+0431",
      "U+0432", "U+0433", "U+0434", "U+0435", "U+0436", "U+0437", "U+0438",
      "U+0439", "U+043A", "U+043B", "U+043C", "U+043D", "U+043E", "U+043F",
      "U+0440", "U+0441", "U+0442", "U+0443", "U+0444", "U+0445", "U+0446",
      "U+0447", "U+0448", "U+0449", "U+044A", "U+044B", "U+044C", "U+044D",
      "U+044E", "U+044F", "U+0461", "U+0463", "U+0465", "U+0467", "U+0469",
      "U+046B", "U+046D", "U+046F", "U+0471", "U+0473", "U+0475", "U+0477",
      "U+0479", "U+047B", "U+047D", "U+047F", "U+0481", "U+048B", "U+048D",
      "U+048F", "U+0491", "U+0493", "U+0495", "U+0497", "U+0499", "U+049B",
      "U+049D", "U+049F", "U+04A1", "U+04A3", "U+04A5", "U+04A7", "U+04A9",
      "U+04AB", "U+04AD", "U+04AF", "U+04B1", "U+04B3", "U+04B5", "U+04B7",
      "U+04B9", "U+04BB", "U+04BD", "U+04BF", "U+04CF", "U+04C2", "U+04C4",
      "U+04C6", "U+04C8", "U+04CA", "U+04CC", "U+04CE", "U+04D1", "U+04D3",
      "U+04D5", "U+04D7", "U+04D9", "U+04DB", "U+04DD", "U+04DF", "U+04E1",
      "U+04E3", "U+04E5", "U+04E7", "U+04E9", "U+04EB", "U+04ED", "U+04EF",
      "U+04F1", "U+04F3", "U+04F5", "U+04F7", "U+04F9", "U+04FB", "U+04FD",
      "U+04FF", "U+0501", "U+0503", "U+0505", "U+0507", "U+0509", "U+050B",
      "U+050D", "U+050F", "U+0511", "U+0513", "U+0515", "U+0517", "U+0519",
      "U+051B", "U+051D", "U+051F", "U+0521", "U+0523", "U+0525", "U+0527",
      "U+0529", "U+052B", "U+052D", "U+052F", "U+0561", "U+0562", "U+0563",
      "U+0564", "U+0565", "U+0566", "U+0567", "U+0568", "U+0569", "U+056A",
      "U+056B", "U+056C", "U+056D", "U+056E", "U+056F", "U+0570", "U+0571",
      "U+0572", "U+0573", "U+0574", "U+0575", "U+0576", "U+0577", "U+0578",
      "U+0579", "U+057A", "U+057B", "U+057C", "U+057D", "U+057E", "U+057F",
      "U+0580", "U+0581", "U+0582", "U+0583", "U+0584", "U+0585", "U+0586",
      "U+2D00", "U+2D01", "U+2D02", "U+2D03", "U+2D04", "U+2D05", "U+2D06",
      "U+2D07", "U+2D08", "U+2D09", "U+2D0A", "U+2D0B", "U+2D0C", "U+2D0D",
      "U+2D0E", "U+2D0F", "U+2D10", "U+2D11", "U+2D12", "U+2D13", "U+2D14",
      "U+2D15", "U+2D16", "U+2D17", "U+2D18", "U+2D19", "U+2D1A", "U+2D1B",
      "U+2D1C", "U+2D1D", "U+2D1E", "U+2D1F", "U+2D20", "U+2D21", "U+2D22",
      "U+2D23", "U+2D24", "U+2D25", "U+2D27", "U+2D2D", "U+AB70", "U+AB71",
      "U+AB72", "U+AB73", "U+AB74", "U+AB75", "U+AB76", "U+AB77", "U+AB78",
      "U+AB79", "U+AB7A", "U+AB7B", "U+AB7C", "U+AB7D", "U+AB7E", "U+AB7F",
      "U+AB80", "U+AB81", "U+AB82", "U+AB83", "U+AB84", "U+AB85", "U+AB86",
      "U+AB87", "U+AB88", "U+AB89", "U+AB8A", "U+AB8B", "U+AB8C", "U+AB8D",
      "U+AB8E", "U+AB8F", "U+AB90", "U+AB91", "U+AB92", "U+AB93", "U+AB94",
      "U+AB95", "U+AB96", "U+AB97", "U+AB98", "U+AB99", "U+AB9A", "U+AB9B",
      "U+AB9C", "U+AB9D", "U+AB9E", "U+AB9F", "U+ABA0", "U+ABA1", "U+ABA2",
      "U+ABA3", "U+ABA4", "U+ABA5", "U+ABA6", "U+ABA7", "U+ABA8", "U+ABA9",
      "U+ABAA", "U+ABAB", "U+ABAC", "U+ABAD", "U+ABAE", "U+ABAF", "U+ABB0",
      "U+ABB1", "U+ABB2", "U+ABB3", "U+ABB4", "U+ABB5", "U+ABB6", "U+ABB7",
      "U+ABB8", "U+ABB9", "U+ABBA", "U+ABBB", "U+ABBC", "U+ABBD", "U+ABBE",
      "U+ABBF", "U+13F8", "U+13F9", "U+13FA", "U+13FB", "U+13FC", "U+13FD",
      "U+10D0", "U+10D1", "U+10D2", "U+10D3", "U+10D4", "U+10D5", "U+10D6",
      "U+10D7", "U+10D8", "U+10D9", "U+10DA", "U+10DB", "U+10DC", "U+10DD",
      "U+10DE", "U+10DF", "U+10E0", "U+10E1", "U+10E2", "U+10E3", "U+10E4",
      "U+10E5", "U+10E6", "U+10E7", "U+10E8", "U+10E9", "U+10EA", "U+10EB",
      "U+10EC", "U+10ED", "U+10EE", "U+10EF", "U+10F0", "U+10F1", "U+10F2",
      "U+10F3", "U+10F4", "U+10F5", "U+10F6", "U+10F7", "U+10F8", "U+10F9",
      "U+10FA", "U+10FD", "U+10FE", "U+10FF", "U+1E01", "U+1E03", "U+1E05",
      "U+1E07", "U+1E09", "U+1E0B", "U+1E0D", "U+1E0F", "U+1E11", "U+1E13",
      "U+1E15", "U+1E17", "U+1E19", "U+1E1B", "U+1E1D", "U+1E1F", "U+1E21",
      "U+1E23", "U+1E25", "U+1E27", "U+1E29", "U+1E2B", "U+1E2D", "U+1E2F",
      "U+1E31", "U+1E33", "U+1E35", "U+1E37", "U+1E39", "U+1E3B", "U+1E3D",
      "U+1E3F", "U+1E41", "U+1E43", "U+1E45", "U+1E47", "U+1E49", "U+1E4B",
      "U+1E4D", "U+1E4F", "U+1E51", "U+1E53", "U+1E55", "U+1E57", "U+1E59",
      "U+1E5B", "U+1E5D", "U+1E5F", "U+1E61", "U+1E63", "U+1E65", "U+1E67",
      "U+1E69", "U+1E6B", "U+1E6D", "U+1E6F", "U+1E71", "U+1E73", "U+1E75",
      "U+1E77", "U+1E79", "U+1E7B", "U+1E7D", "U+1E7F", "U+1E81", "U+1E83",
      "U+1E85", "U+1E87", "U+1E89", "U+1E8B", "U+1E8D", "U+1E8F", "U+1E91",
      "U+1E93", "U+1E95", "U+00DF", "U+1EA1", "U+1EA3", "U+1EA5", "U+1EA7",
      "U+1EA9", "U+1EAB", "U+1EAD", "U+1EAF", "U+1EB1", "U+1EB3", "U+1EB5",
      "U+1EB7", "U+1EB9", "U+1EBB", "U+1EBD", "U+1EBF", "U+1EC1", "U+1EC3",
      "U+1EC5", "U+1EC7", "U+1EC9", "U+1ECB", "U+1ECD", "U+1ECF", "U+1ED1",
      "U+1ED3", "U+1ED5", "U+1ED7", "U+1ED9", "U+1EDB", "U+1EDD", "U+1EDF",
      "U+1EE1", "U+1EE3", "U+1EE5", "U+1EE7", "U+1EE9", "U+1EEB", "U+1EED",
      "U+1EEF", "U+1EF1", "U+1EF3", "U+1EF5", "U+1EF7", "U+1EF9", "U+1EFB",
      "U+1EFD", "U+1EFF", "U+1F00", "U+1F01", "U+1F02", "U+1F03", "U+1F04",
      "U+1F05", "U+1F06", "U+1F07", "U+1F10", "U+1F11", "U+1F12", "U+1F13",
      "U+1F14", "U+1F15", "U+1F20", "U+1F21", "U+1F22", "U+1F23", "U+1F24",
      "U+1F25", "U+1F26", "U+1F27", "U+1F30", "U+1F31", "U+1F32", "U+1F33",
      "U+1F34", "U+1F35", "U+1F36", "U+1F37", "U+1F40", "U+1F41", "U+1F42",
      "U+1F43", "U+1F44", "U+1F45", "U+1F51", "U+1F53", "U+1F55", "U+1F57",
      "U+1F60", "U+1F61", "U+1F62", "U+1F63", "U+1F64", "U+1F65", "U+1F66",
      "U+1F67", "U+1F80", "U+1F81", "U+1F82", "U+1F83", "U+1F84", "U+1F85",
      "U+1F86", "U+1F87", "U+1F90", "U+1F91", "U+1F92", "U+1F93", "U+1F94",
      "U+1F95", "U+1F96", "U+1F97", "U+1FA0", "U+1FA1", "U+1FA2", "U+1FA3",
      "U+1FA4", "U+1FA5", "U+1FA6", "U+1FA7", "U+1FB0", "U+1FB1", "U+1F70",
      "U+1F71", "U+1FB3", "U+1F72", "U+1F73", "U+1F74", "U+1F75", "U+1FC3",
      "U+1FD0", "U+1FD1", "U+1F76", "U+1F77", "U+1FE0", "U+1FE1", "U+1F7A",
      "U+1F7B", "U+1FE5", "U+1F78", "U+1F79", "U+1F7C", "U+1F7D", "U+1FF3",
      "U+03C9", "k", "U+00E5", "U+214E", "U+2170", "U+2171", "U+2172",
      "U+2173", "U+2174", "U+2175", "U+2176", "U+2177", "U+2178", "U+2179",
      "U+217A", "U+217B", "U+217C", "U+217D", "U+217E", "U+217F", "U+2184",
      "U+24D0", "U+24D1", "U+24D2", "U+24D3", "U+24D4", "U+24D5", "U+24D6",
      "U+24D7", "U+24D8", "U+24D9", "U+24DA", "U+24DB", "U+24DC", "U+24DD",
      "U+24DE", "U+24DF", "U+24E0", "U+24E1", "U+24E2", "U+24E3", "U+24E4",
      "U+24E5", "U+24E6", "U+24E7", "U+24E8", "U+24E9", "U+2C30", "U+2C31",
      "U+2C32", "U+2C33", "U+2C34", "U+2C35", "U+2C36", "U+2C37", "U+2C38",
      "U+2C39", "U+2C3A", "U+2C3B", "U+2C3C", "U+2C3D", "U+2C3E", "U+2C3F",
      "U+2C40", "U+2C41", "U+2C42", "U+2C43", "U+2C44", "U+2C45", "U+2C46",
      "U+2C47", "U+2C48", "U+2C49", "U+2C4A", "U+2C4B", "U+2C4C", "U+2C4D",
      "U+2C4E", "U+2C4F", "U+2C50", "U+2C51", "U+2C52", "U+2C53", "U+2C54",
      "U+2C55", "U+2C56", "U+2C57", "U+2C58", "U+2C59", "U+2C5A", "U+2C5B",
      "U+2C5C", "U+2C5D", "U+2C5E", "U+2C5F", "U+2C61", "U+026B", "U+1D7D",
      "U+027D", "U+2C68", "U+2C6A", "U+2C6C", "U+0251", "U+0271", "U+0250",
      "U+0252", "U+2C73", "U+2C76", "U+023F", "U+0240", "U+2C81", "U+2C83",
      "U+2C85", "U+2C87", "U+2C89", "U+2C8B", "U+2C8D", "U+2C8F", "U+2C91",
      "U+2C93", "U+2C95", "U+2C97", "U+2C99", "U+2C9B", "U+2C9D", "U+2C9F",
      "U+2CA1", "U+2CA3", "U+2CA5", "U+2CA7", "U+2CA9", "U+2CAB", "U+2CAD",
      "U+2CAF", "U+2CB1", "U+2CB3", "U+2CB5", "U+2CB7", "U+2CB9", "U+2CBB",
      "U+2CBD", "U+2CBF", "U+2CC1", "U+2CC3", "U+2CC5", "U+2CC7", "U+2CC9",
      "U+2CCB", "U+2CCD", "U+2CCF", "U+2CD1", "U+2CD3", "U+2CD5", "U+2CD7",
      "U+2CD9", "U+2CDB", "U+2CDD", "U+2CDF", "U+2CE1", "U+2CE3", "U+2CEC",
      "U+2CEE", "U+2CF3", "U+A641", "U+A643", "U+A645", "U+A647", "U+A649",
      "U+A64B", "U+A64D", "U+A64F", "U+A651", "U+A653", "U+A655", "U+A657",
      "U+A659", "U+A65B", "U+A65D", "U+A65F", "U+A661", "U+A663", "U+A665",
      "U+A667", "U+A669", "U+A66B", "U+A66D", "U+A681", "U+A683", "U+A685",
      "U+A687", "U+A689", "U+A68B", "U+A68D", "U+A68F", "U+A691", "U+A693",
      "U+A695", "U+A697", "U+A699", "U+A69B", "U+A723", "U+A725", "U+A727",
      "U+A729", "U+A72B", "U+A72D", "U+A72F", "U+A733", "U+A735", "U+A737",
      "U+A739", "U+A73B", "U+A73D", "U+A73F", "U+A741", "U+A743", "U+A745",
      "U+A747", "U+A749", "U+A74B", "U+A74D", "U+A74F", "U+A751", "U+A753",
      "U+A755", "U+A757", "U+A759", "U+A75B", "U+A75D", "U+A75F", "U+A761",
      "U+A763", "U+A765", "U+A767", "U+A769", "U+A76B", "U+A76D", "U+A76F",
      "U+A77A", "U+A77C", "U+1D79", "U+A77F", "U+A781", "U+A783", "U+A785",
      "U+A787", "U+A78C", "U+0265", "U+A791", "U+A793", "U+A797", "U+A799",
      "U+A79B", "U+A79D", "U+A79F", "U+A7A1", "U+A7A3", "U+A7A5", "U+A7A7",
      "U+A7A9", "U+0266", "U+025C", "U+0261", "U+026C", "U+026A", "U+029E",
      "U+0287", "U+029D", "U+AB53", "U+A7B5", "U+A7B7", "U+A7B9", "U+A7BB",
      "U+A7BD", "U+A7BF", "U+A7C1", "U+A7C3", "U+A794", "U+0282", "U+1D8E",
      "U+A7C8", "U+A7CA", "U+A7D1", "U+A7D7", "U+A7D9", "U+A7F6", "U+FF41",
      "U+FF42", "U+FF43", "U+FF44", "U+FF45", "U+FF46", "U+FF47", "U+FF48",
      "U+FF49", "U+FF4A", "U+FF4B", "U+FF4C", "U+FF4D", "U+FF4E", "U+FF4F",
      "U+FF50", "U+FF51", "U+FF52", "U+FF53", "U+FF54", "U+FF55", "U+FF56",
      "U+FF57", "U+FF58", "U+FF59", "U+FF5A", "U+10428", "U+10429", "U+1042A",
      "U+1042B", "U+1042C", "U+1042D", "U+1042E", "U+1042F", "U+10430", "U+10431",
      "U+10432", "U+10433", "U+10434", "U+10435", "U+10436", "U+10437", "U+10438",
      "U+10439", "U+1043A", "U+1043B", "U+1043C", "U+1043D", "U+1043E", "U+1043F",
      "U+10440", "U+10441", "U+10442", "U+10443", "U+10444", "U+10445", "U+10446",
      "U+10447", "U+10448", "U+10449", "U+1044A", "U+1044B", "U+1044C", "U+1044D",
      "U+1044E", "U+1044F", "U+104D8", "U+104D9", "U+104DA", "U+104DB", "U+104DC",
      "U+104DD", "U+104DE", "U+104DF", "U+104E0", "U+104E1", "U+104E2", "U+104E3",
      "U+104E4", "U+104E5", "U+104E6", "U+104E7", "U+104E8", "U+104E9", "U+104EA",
      "U+104EB", "U+104EC", "U+104ED", "U+104EE", "U+104EF", "U+104F0", "U+104F1",
      "U+104F2", "U+104F3", "U+104F4", "U+104F5", "U+104F6", "U+104F7", "U+104F8",
      "U+104F9", "U+104FA", "U+104FB", "U+10597", "U+10598", "U+10599", "U+1059A",
      "U+1059B", "U+1059C", "U+1059D", "U+1059E", "U+1059F", "U+105A0", "U+105A1",
      "U+105A3", "U+105A4", "U+105A5", "U+105A6", "U+105A7", "U+105A8", "U+105A9",
      "U+105AA", "U+105AB", "U+105AC", "U+105AD", "U+105AE", "U+105AF", "U+105B0",
      "U+105B1", "U+105B3", "U+105B4", "U+105B5", "U+105B6", "U+105B7", "U+105B8",
      "U+105B9", "U+105BB", "U+105BC", "U+10CC0", "U+10CC1", "U+10CC2", "U+10CC3",
      "U+10CC4", "U+10CC5", "U+10CC6", "U+10CC7", "U+10CC8", "U+10CC9", "U+10CCA",
      "U+10CCB", "U+10CCC", "U+10CCD", "U+10CCE", "U+10CCF", "U+10CD0", "U+10CD1",
      "U+10CD2", "U+10CD3", "U+10CD4", "U+10CD5", "U+10CD6", "U+10CD7", "U+10CD8",
      "U+10CD9", "U+10CDA", "U+10CDB", "U+10CDC", "U+10CDD", "U+10CDE", "U+10CDF",
      "U+10CE0", "U+10CE1", "U+10CE2", "U+10CE3", "U+10CE4", "U+10CE5", "U+10CE6",
      "U+10CE7", "U+10CE8", "U+10CE9", "U+10CEA", "U+10CEB", "U+10CEC", "U+10CED",
      "U+10CEE", "U+10CEF", "U+10CF0", "U+10CF1", "U+10CF2", "U+118C0", "U+118C1",
      "U+118C2", "U+118C3", "U+118C4", "U+118C5", "U+118C6", "U+118C7", "U+118C8",
      "U+118C9", "U+118CA", "U+118CB", "U+118CC", "U+118CD", "U+118CE", "U+118CF",
      "U+118D0", "U+118D1", "U+118D2", "U+118D3", "U+118D4", "U+118D5", "U+118D6",
      "U+118D7", "U+118D8", "U+118D9", "U+118DA", "U+118DB", "U+118DC", "U+118DD",
      "U+118DE", "U+118DF", "U+16E60", "U+16E61", "U+16E62", "U+16E63", "U+16E64",
      "U+16E65", "U+16E66", "U+16E67", "U+16E68", "U+16E69", "U+16E6A", "U+16E6B",
      "U+16E6C", "U+16E6D", "U+16E6E", "U+16E6F", "U+16E70", "U+16E71", "U+16E72",
      "U+16E73", "U+16E74", "U+16E75", "U+16E76", "U+16E77", "U+16E78", "U+16E79",
      "U+16E7A", "U+16E7B", "U+16E7C", "U+16E7D", "U+16E7E", "U+16E7F", "U+1E922",
      "U+1E923", "U+1E924", "U+1E925", "U+1E926", "U+1E927", "U+1E928", "U+1E929",
      "U+1E92A", "U+1E92B", "U+1E92C", "U+1E92D", "U+1E92E", "U+1E92F", "U+1E930",
      "U+1E931", "U+1E932", "U+1E933", "U+1E934", "U+1E935", "U+1E936", "U+1E937",
      "U+1E938", "U+1E939", "U+1E93A", "U+1E93B", "U+1E93C", "U+1E93D", "U+1E93E",
      "U+1E93F", "U+1E940", "U+1E941", "U+1E942", "U+1E943"
    >>

\* the characters with the property Cased, and those with Case_Ignorable,
\* as the ranges of code points first..last they fill
Cased ==
    <<
      << "U+0041", "U+005A" >>, << "U+0061", "U+007A" >>, << "U+00AA", "U+00AA" >>,
      << "U+00B5", "U+00B5" >>, << "U+00BA", "U+00BA" >>, << "U+00C0", "U+00D6" >>,
      << "U+00D8", "U+00F6" >>, << "U+00F8", "U+01BA" >>, << "U+01BC", "U+01BF" >>,
      << "U+01C4", "U+0293" >>, << "U+0295", "U+02B8" >>, << "U+02C0", "U+02C1" >>,
      << "U+02E0", "U+02E4" >>, << "U+0345", "U+0345" >>, << "U+0370", "U+0373" >>,
      << "U+0376", "U+0377" >>, << "U+037A", "U+037D" >>, << "U+037F", "U+037F" >>,
      << "U+0386", "U+0386" >>, << "U+0388", "U+038A" >>, << "U+038C", "U+038C" >>,
      << "U+038E", "U+03A1" >>, << "U+03A3", "U+03F5" >>, << "U+03F7", "U+0481" >>,
      << "U+048A", "U+052F" >>, << "U+0531", "U+0556" >>, << "U+0560", "U+0588" >>,
      << "U+10A0", "U+10C5" >>, << "U+10C7", "U+10C7" >>, << "U+10CD", "U+10CD" >>,
      << "U+10D0", "U+10FA" >>, << "U+10FD", "U+10FF" >>, << "U+13A0", "U+13F5" >>,
      << "U+13F8", "U+13FD" >>, << "U+1C80", "U+1C88" >>, << "U+1C90", "U+1CBA" >>,
      << "U+1CBD", "U+1CBF" >>, << "U+1D00", "U+1DBF" >>, << "U+1E00", "U+1F15" >>,
      << "U+1F18", "U+1F1D" >>, << "U+1F20", "U+1F45" >>, << "U+1F48", "U+1F4D" >>,
      << "U+1F50", "U+1F57" >>, << "U+1F59", "U+1F59" >>, << "U+1F5B", "U+1F5B" >>,
      << "U+1F5D", "U+1F5D" >>, << "U+1F5F", "U+1F7D" >>, << "U+1F80", "U+1FB4" >>,
      << "U+1FB6", "U+1FBC" >>, << "U+1FBE", "U+1FBE" >>, << "U+1FC2", "U+1FC4" >>,
      << "U+1FC6", "U+1FCC" >>, << "U+1FD0", "U+1FD3" >>, << "U+1FD6", "U+1FDB" >>,
      << "U+1FE0", "U+1FEC" >>, << "U+1FF2", "U+1FF4" >>, << "U+1FF6", "U+1FFC" >>,
      << "U+2071", "U+2071" >>, << "U+207F", "U+207F" >>, << "U+2090", "U+209C" >>,
      << "U+2102", "U+2102" >>, << "U+2107", "U+2107" >>, << "U+210A", "U+2113" >>,
      << "U+2115", "U+2115" >>, << "U+2119", "U+211D" >>, << "U+2124", "U+2124" >>,
      << "U+2126", "U+2126" >>, << "U+2128", "U+2128" >>, << "U+212A", "U+212D" >>,
      << "U+212F", "U+2134" >>, << "U+2139", "U+2139" >>, << "U+213C", "U+213F" >>,
      << "U+2145", "U+2149" >>, << "U+214E", "U+214E" >>, << "U+2160", "U+217F" >>,
      << "U+2183", "U+2184" >>, << "U+24B6", "U+24E9" >>, << "U+2C00", "U+2CE4" >>,
      << "U+2CEB", "U+2CEE" >>, << "U+2CF2", "U+2CF3" >>, << "U+2D00", "U+2D25" >>,
      << "U+2D27", "U+2D27" >>, << "U+2D2D", "U+2D2D" >>, << "U+A640", "U+A66D" >>,
      << "U+A680", "U+A69D" >>, << "U+A722", "U+A787" >>, << "U+A78B", "U+A78E" >>,
      << "U+A790", "U+A7CA" >>, << "U+A7D0", "U+A7D1" >>, << "U+A7D3", "U+A7D3" >>,
      << "U+A7D5", "U+A7D9" >>, << "U+A7F5", "U+A7F6" >>, << "U+A7F8", "U+A7FA" >>,
      << "U+AB30", "U+AB5A" >>, << "U+AB5C", "U+AB68" >>, << "U+AB70", "U+ABBF" >>,
      << "U+FB00", "U+FB06" >>, << "U+FB13", "U+FB17" >>, << "U+FF21", "U+FF3A" >>,
      << "U+FF41", "U+FF5A" >>, << "U+10400", "U+1044F" >>, << "U+104B0", "U+104D3" >>,
      << "U+104D8", "U+104FB" >>, << "U+10570", "U+1057A" >>, << "U+1057C", "U+1058A" >>,
      << "U+1058C", "U+10592" >>, << "U+10594", "U+10595" >>, << "U+10597", "U+105A1" >>,
      << "U+105A3", "U+105B1" >>, << "U+105B3", "U+105B9" >>, << "U+105BB", "U+105BC" >>,
      << "U+10780", "U+10780" >>, << "U+10783", "U+10785" >>, << "U+10787", "U+107B0" >>,
      << "U+107B2", "U+107BA" >>, << "U+10C80", "U+10CB2" >>, << "U+10CC0", "U+10CF2" >>,
      << "U+118A0", "U+118DF" >>, << "U+16E40", "U+16E7F" >>, << "U+1D400", "U+1D454" >>,
      << "U+1D456", "U+1D49C" >>, << "U+1D49E", "U+1D49F" >>, << "U+1D4A2", "U+1D4A2" >>,
      << "U+1D4A5", "U+1D4A6" >>, << "U+1D4A9", "U+1D4AC" >>, << "U+1D4AE", "U+1D4B9" >>,
      << "U+1D4BB", "U+1D4BB" >>, << "U+1D4BD", "U+1D4C3" >>, << "U+1D4C5", "U+1D505" >>,
      << "U+1D507", "U+1D50A" >>, << "U+1D50D", "U+1D514" >>, << "U+1D516", "U+1D51C" >>,
      << "U+1D51E", "U+1D539" >>, << "U+1D53B", "U+1D53E" >>, << "U+1D540", "U+1D544" >>,
      << "U+1D546", "U+1D546" >>, << "U+1D54A", "U+1D550" >>, << "U+1D552", "U+1D6A5" >>,
      << "U+1D6A8", "U+1D6C0" >>, << "U+1D6C2", "U+1D6DA" >>, << "U+1D6DC", "U+1D6FA" >>,
      << "U+1D6FC", "U+1D714" >>, << "U+1D716", "U+1D734" >>, << "U+1D736", "U+1D74E" >>,
      << "U+1D750", "U+1D76E" >>, << "U+1D770", "U+1D788" >>, << "U+1D78A", "U+1D7A8" >>,
      << "U+1D7AA", "U+1D7C2" >>, << "U+1D7C4", "U+1D7CB" >>, << "U+1DF00", "U+1DF09" >>,
      << "U+1DF0B", "U+1DF1E" >>, << "U+1E900", "U+1E943" >>, << "U+1F130", "U+1F149" >>,
      << "U+1F150", "U+1F169" >>, << "U+1F170", "U+1F189" >>
    >>
CaseIgnorable ==
    <<
      << "U+0027", "U+0027" >>, << "U+002E", "U+002E" >>, << "U+003A", "U+003A" >>,
      << "U+005E", "U+005E" >>, << "U+0060", "U+0060" >>, << "U+00A8", "U+00A8" >>,
      << "U+00AD", "U+00AD" >>, << "U+00AF", "U+00AF" >>, << "U+00B4", "U+00B4" >>,
      << "U+00B7", "U+00B8" >>, << "U+02B0", "U+036F" >>, << "U+0374", "U+0375" >>,
      << "U+037A", "U+037A" >>, << "U+0384", "U+0385" >>, << "U+0387", "U+0387" >>,
      << "U+0483", "U+0489" >>, << "U+0559", "U+0559" >>, << "U+055F", "U+055F" >>,
      << "U+0591", "U+05BD" >>, << "U+05BF", "U+05BF" >>, << "U+05C1", "U+05C2" >>,
      << "U+05C4", "U+05C5" >>, << "U+05C7", "U+05C7" >>, << "U+05F4", "U+05F4" >>,
      << "U+0600", "U+0605" >>, << "U+0610", "U+061A" >>, << "U+061C", "U+061C" >>,
      << "U+0640", "U+0640" >>, << "U+064B", "U+065F" >>, << "U+0670", "U+0670" >>,
      << "U+06D6", "U+06DD" >>, << "U+06DF", "U+06E8" >>, << "U+06EA", "U+06ED" >>,
      << "U+070F", "U+070F" >>, << "U+0711", "U+0711" >>, << "U+0730", "U+074A" >>,
      << "U+07A6", "U+07B0" >>, << "U+07EB", "U+07F5" >>, << "U+07FA", "U+07FA" >>,
      << "U+07FD", "U+07FD" >>, << "U+0816", "U+082D" >>, << "U+0859", "U+085B" >>,
      << "U+0888", "U+0888" >>, << "U+0890", "U+0891" >>, << "U+0898", "U+089F" >>,
      << "U+08C9", "U+0902" >>, << "U+093A", "U+093A" >>, << "U+093C", "U+093C" >>,
      << "U+0941", "U+0948" >>, << "U+094D", "U+094D" >>, << "U+0951", "U+0957" >>,
      << "U+0962", "U+0963" >>, << "U+0971", "U+0971" >>, << "U+0981", "U+0981" >>,
      << "U+09BC", "U+09BC" >>, << "U+09C1", "U+09C4" >>, << "U+09CD", "U+09CD" >>,
      << "U+09E2", "U+09E3" >>, << "U+09FE", "U+09FE" >>, << "U+0A01", "U+0A02" >>,
      << "U+0A3C", "U+0A3C" >>, << "U+0A41", "U+0A42" >>, << "U+0A47", "U+0A48" >>,
      << "U+0A4B", "U+0A4D" >>, << "U+0A51", "U+0A51" >>, << "U+0A70", "U+0A71" >>,
      << "U+0A75", "U+0A75" >>, << "U+0A81", "U+0A82" >>, << "U+0ABC", "U+0ABC" >>,
      << "U+0AC1", "U+0AC5" >>, << "U+0AC7", "U+0AC8" >>, << "U+0ACD", "U+0ACD" >>,
      << "U+0AE2", "U+0AE3" >>, << "U+0AFA", "U+0AFF" >>, << "U+0B01", "U+0B01" >>,
      << "U+0B3C", "U+0B3C" >>, << "U+0B3F", "U+0B3F" >>, << "U+0B41", "U+0B44" >>,
      << "U+0B4D", "U+0B4D" >>, << "U+0B55", "U+0B56" >>, << "U+0B62", "U+0B63" >>,
      << "U+0B82", "U+0B82" >>, << "U+0BC0", "U+0BC0" >>, << "U+0BCD", "U+0BCD" >>,
      << "U+0C00", "U+0C00" >>, << "U+0C04", "U+0C04" >>, << "U+0C3C", "U+0C3C" >>,
      << "U+0C3E", "U+0C40" >>, << "U+0C46", "U+0C48" >>, << "U+0C4A", "U+0C4D" >>,
      << "U+0C55", "U+0C56" >>, << "U+0C62", "U+0C63" >>, << "U+0C81", "U+0C81" >>,
      << "U+0CBC", "U+0CBC" >>, << "U+0CBF", "U+0CBF" >>, << "U+0CC6", "U+0CC6" >>,
      << "U+0CCC", "U+0CCD" >>, << "U+0CE2", "U+0CE3" >>, << "U+0D00", "U+0D01" >>,
      << "U+0D3B", "U+0D3C" >>, << "U+0D41", "U+0D44" >>, << "U+0D4D", "U+0D4D" >>,
      << "U+0D62", "U+0D63" >>, << "U+0D81", "U+0D81" >>, << "U+0DCA", "U+0DCA" >>,
      << "U+0DD2", "U+0DD4" >>, << "U+0DD6", "U+0DD6" >>, << "U+0E31", "U+0E31" >>,
      << "U+0E34", "U+0E3A" >>, << "U+0E46", "U+0E4E" >>, << "U+0EB1", "U+0EB1" >>,
      << "U+0EB4", "U+0EBC" >>, << "U+0EC6", "U+0EC6" >>, << "U+0EC8", "U+0ECD" >>,
      << "U+0F18", "U+0F19" >>, << "U+0F35", "U+0F35" >>, << "U+0F37", "U+0F37" >>,
      << "U+0F39", "U+0F39" >>, << "U+0F71", "U+0F7E" >>, << "U+0F80", "U+0F84" >>,
      << "U+0F86", "U+0F87" >>, << "U+0F8D", "U+0F97" >>, << "U+0F99", "U+0FBC" >>,
      << "U+0FC6", "U+0FC6" >>, << "U+102D", "U+1030" >>, << "U+1032", "U+1037" >>,
      << "U+1039", "U+103A" >>, << "U+103D", "U+103E" >>, << "U+1058", "U+1059" >>,
      << "U+105E", "U+1060" >>, << "U+1071", "U+1074" >>, << "U+1082", "U+1082" >>,
      << "U+1085", "U+1086" >>, << "U+108D", "U+108D" >>, << "U+109D", "U+109D" >>,
      << "U+10FC", "U+10FC" >>, << "U+135D", "U+135F" >>, << "U+1712", "U+1714" >>,
      << "U+1732", "U+1733" >>, << "U+1752", "U+1753" >>, << "U+1772", "U+1773" >>,
      << "U+17B4", "U+17B5" >>, << "U+17B7", "U+17BD" >>, << "U+17C6", "U+17C6" >>,
      << "U+17C9", "U+17D3" >>, << "U+17D7", "U+17D7" >>, << "U+17DD", "U+17DD" >>,
      << "U+180B", "U+180F" >>, << "U+1843", "U+1843" >>, << "U+1885", "U+1886" >>,
      << "U+18A9", "U+18A9" >>, << "U+1920", "U+1922" >>, << "U+1927", "U+1928" >>,
      << "U+1932", "U+1932" >>, << "U+1939", "U+193B" >>, << "U+1A17", "U+1A18" >>,
      << "U+1A1B", "U+1A1B" >>, << "U+1A56", "U+1A56" >>, << "U+1A58", "U+1A5E" >>,
      << "U+1A60", "U+1A60" >>, << "U+1A62", "U+1A62" >>, << "U+1A65", "U+1A6C" >>,
      << "U+1A73", "U+1A7C" >>, << "U+1A7F", "U+1A7F" >>, << "U+1AA7", "U+1AA7" >>,
      << "U+1AB0", "U+1ACE" >>, << "U+1B00", "U+1B03" >>, << "U+1B34", "U+1B34" >>,
      << "U+1B36", "U+1B3A" >>, << "U+1B3C", "U+1B3C" >>, << "U+1B42", "U+1B42" >>,
      << "U+1B6B", "U+1B73" >>, << "U+1B80", "U+1B81" >>, << "U+1BA2", "U+1BA5" >>,
      << "U+1BA8", "U+1BA9" >>, << "U+1BAB", "U+1BAD" >>, << "U+1BE6", "U+1BE6" >>,
      << "U+1BE8", "U+1BE9" >>, << "U+1BED", "U+1BED" >>, << "U+1BEF", "U+1BF1" >>,
      << "U+1C2C", "U+1C33" >>, << "U+1C36", "U+1C37" >>, << "U+1C78", "U+1C7D" >>,
      << "U+1CD0", "U+1CD2" >>, << "U+1CD4", "U+1CE0" >>, << "U+1CE2", "U+1CE8" >>,
      << "U+1CED", "U+1CED" >>, << "U+1CF4", "U+1CF4" >>, << "U+1CF8", "U+1CF9" >>,
      << "U+1D2C", "U+1D6A" >>, << "U+1D78", "U+1D78" >>, << "U+1D9B", "U+1DFF" >>,
      << "U+1FBD", "U+1FBD" >>, << "U+1FBF", "U+1FC1" >>, << "U+1FCD", "U+1FCF" >>,
      << "U+1FDD", "U+1FDF" >>, << "U+1FED", "U+1FEF" >>, << "U+1FFD", "U+1FFE" >>,
      << "U+200B", "U+200F" >>, << "U+2018", "U+2019" >>, << "U+2024", "U+2024" >>,
      << "U+2027", "U+2027" >>, << "U+202A", "U+202E" >>, << "U+2060", "U+2064" >>,
      << "U+2066", "U+206F" >>, << "U+2071", "U+2071" >>, << "U+207F", "U+207F" >>,
      << "U+2090", "U+209C" >>, << "U+20D0", "U+20F0" >>, << "U+2C7C", "U+2C7D" >>,
      << "U+2CEF", "U+2CF1" >>, << "U+2D6F", "U+2D6F" >>, << "U+2D7F", "U+2D7F" >>,
      << "U+2DE0", "U+2DFF" >>, << "U+2E2F", "U+2E2F" >>, << "U+3005", "U+3005" >>,
      << "U+302A", "U+302D" >>, << "U+3031", "U+3035" >>, << "U+303B", "U+303B" >>,
      << "U+3099", "U+309E" >>, << "U+30FC", "U+30FE" >>, << "U+A015", "U+A015" >>,
      << "U+A4F8", "U+A4FD" >>, << "U+A60C", "U+A60C" >>, << "U+A66F", "U+A672" >>,
      << "U+A674", "U+A67D" >>, << "U+A67F", "U+A67F" >>, << "U+A69C", "U+A69F" >>,
      << "U+A6F0", "U+A6F1" >>, << "U+A700", "U+A721" >>, << "U+A770", "U+A770" >>,
      << "U+A788", "U+A78A" >>, << "U+A7F2", "U+A7F4" >>, << "U+A7F8", "U+A7F9" >>,
      << "U+A802", "U+A802" >>, << "U+A806", "U+A806" >>, << "U+A80B", "U+A80B" >>,
      << "U+A825", "U+A826" >>, << "U+A82C", "U+A82C" >>, << "U+A8C4", "U+A8C5" >>,
      << "U+A8E0", "U+A8F1" >>, << "U+A8FF", "U+A8FF" >>, << "U+A926", "U+A92D" >>,
      << "U+A947", "U+A951" >>, << "U+A980", "U+A982" >>, << "U+A9B3", "U+A9B3" >>,
      << "U+A9B6", "U+A9B9" >>, << "U+A9BC", "U+A9BD" >>, << "U+A9CF", "U+A9CF" >>,
      << "U+A9E5", "U+A9E6" >>, << "U+AA29", "U+AA2E" >>, << "U+AA31", "U+AA32" >>,
      << "U+AA35", "U+AA36" >>, << "U+AA43", "U+AA43" >>, << "U+AA4C", "U+AA4C" >>,
      << "U+AA70", "U+AA70" >>, << "U+AA7C", "U+AA7C" >>, << "U+AAB0", "U+AAB0" >>,
      << "U+AAB2", "U+AAB4" >>, << "U+AAB7", "U+AAB8" >>, << "U+AABE", "U+AABF" >>,
      << "U+AAC1", "U+AAC1" >>, << "U+AADD", "U+AADD" >>, << "U+AAEC", "U+AAED" >>,
      << "U+AAF3", "U+AAF4" >>, << "U+AAF6", "U+AAF6" >>, << "U+AB5B", "U+AB5F" >>,
      << "U+AB69", "U+AB6B" >>, << "U+ABE5", "U+ABE5" >>, << "U+ABE8", "U+ABE8" >>,
      << "U+ABED", "U+ABED" >>, << "U+FB1E", "U+FB1E" >>, << "U+FBB2", "U+FBC2" >>,
      << "U+FE00", "U+FE0F" >>, << "U+FE13", "U+FE13" >>, << "U+FE20", "U+FE2F" >>,
      << "U+FE52", "U+FE52" >>, << "U+FE55", "U+FE55" >>, << "U+FEFF", "U+FEFF" >>,
      << "U+FF07", "U+FF07" >>, << "U+FF0E", "U+FF0E" >>, << "U+FF1A", "U+FF1A" >>,
      << "U+FF3E", "U+FF3E" >>, << "U+FF40", "U+FF40" >>, << "U+FF70", "U+FF70" >>,
      << "U+FF9E", "U+FF9F" >>, << "U+FFE3", "U+FFE3" >>, << "U+FFF9", "U+FFFB" >>,
      << "U+101FD", "U+101FD" >>, << "U+102E0", "U+102E0" >>, << "U+10376", "U+1037A" >>,
      << "U+10780", "U+10785" >>, << "U+10787", "U+107B0" >>, << "U+107B2", "U+107BA" >>,
      << "U+10A01", "U+10A03" >>, << "U+10A05", "U+10A06" >>, << "U+10A0C", "U+10A0F" >>,
      << "U+10A38", "U+10A3A" >>, << "U+10A3F", "U+10A3F" >>, << "U+10AE5", "U+10AE6" >>,
      << "U+10D24", "U+10D27" >>, << "U+10EAB", "U+10EAC" >>, << "U+10F46", "U+10F50" >>,
      << "U+10F82", "U+10F85" >>, << "U+11001", "U+11001" >>, << "U+11038", "U+11046" >>,
      << "U+11070", "U+11070" >>, << "U+11073", "U+11074" >>, << "U+1107F", "U+11081" >>,
      << "U+110B3", "U+110B6" >>, << "U+110B9", "U+110BA" >>, << "U+110BD", "U+110BD" >>,
      << "U+110C2", "U+110C2" >>, << "U+110CD", "U+110CD" >>, << "U+11100", "U+11102" >>,
      << "U+11127", "U+1112B" >>, << "U+1112D", "U+11134" >>, << "U+11173", "U+11173" >>,
      << "U+11180", "U+11181" >>, << "U+111B6", "U+111BE" >>, << "U+111C9", "U+111CC" >>,
      << "U+111CF", "U+111CF" >>, << "U+1122F", "U+11231" >>, << "U+11234", "U+11234" >>,
      << "U+11236", "U+11237" >>, << "U+1123E", "U+1123E" >>, << "U+112DF", "U+112DF" >>,
      << "U+112E3", "U+112EA" >>, << "U+11300", "U+11301" >>, << "U+1133B", "U+1133C" >>,
      << "U+11340", "U+11340" >>, << "U+11366", "U+1136C" >>, << "U+11370", "U+11374" >>,
      << "U+11438", "U+1143F" >>, << "U+11442", "U+11444" >>, << "U+11446", "U+11446" >>,
      << "U+1145E", "U+1145E" >>, << "U+114B3", "U+114B8" >>, << "U+114BA", "U+114BA" >>,
      << "U+114BF", "U+114C0" >>, << "U+114C2", "U+114C3" >>, << "U+115B2", "U+115B5" >>,
      << "U+115BC", "U+115BD" >>, << "U+115BF", "U+115C0" >>, << "U+115DC", "U+115DD" >>,
      << "U+11633", "U+1163A" >>, << "U+1163D", "U+1163D" >>, << "U+1163F", "U+11640" >>,
      << "U+116AB", "U+116AB" >>, << "U+116AD", "U+116AD" >>, << "U+116B0", "U+116B5" >>,
      << "U+116B7", "U+116B7" >>, << "U+1171D", "U+1171F" >>, << "U+11722", "U+11725" >>,
      << "U+11727", "U+1172B" >>, << "U+1182F", "U+11837" >>, << "U+11839", "U+1183A" >>,
      << "U+1193B", "U+1193C" >>, << "U+1193E", "U+1193E" >>, << "U+11943", "U+11943" >>,
      << "U+119D4", "U+119D7" >>, << "U+119DA", "U+119DB" >>, << "U+119E0", "U+119E0" >>,
      << "U+11A01", "U+11A0A" >>, << "U+11A33", "U+11A38" >>, << "U+11A3B", "U+11A3E" >>,
      << "U+11A47", "U+11A47" >>, << "U+11A51", "U+11A56" >>, << "U+11A59", "U+11A5B" >>,
      << "U+11A8A", "U+11A96" >>, << "U+11A98", "U+11A99" >>, << "U+11C30", "U+11C36" >>,
      << "U+11C38", "U+11C3D" >>, << "U+11C3F", "U+11C3F" >>, << "U+11C92", "U+11CA7" >>,
      << "U+11CAA", "U+11CB0" >>, << "U+11CB2", "U+11CB3" >>, << "U+11CB5", "U+11CB6" >>,
      << "U+11D31", "U+11D36" >>, << "U+11D3A", "U+11D3A" >>, << "U+11D3C", "U+11D3D" >>,
      << "U+11D3F", "U+11D45" >>, << "U+11D47", "U+11D47" >>, << "U+11D90", "U+11D91" >>,
      << "U+11D95", "U+11D95" >>, << "U+11D97", "U+11D97" >>, << "U+11EF3", "U+11EF4" >>,
      << "U+13430", "U+13438" >>, << "U+16AF0", "U+16AF4" >>, << "U+16B30", "U+16B36" >>,
      << "U+16B40", "U+16B43" >>, << "U+16F4F", "U+16F4F" >>, << "U+16F8F", "U+16F9F" >>,
      << "U+16FE0", "U+16FE1" >>, << "U+16FE3", "U+16FE4" >>, << "U+1AFF0", "U+1AFF3" >>,
      << "U+1AFF5", "U+1AFFB" >>, << "U+1AFFD", "U+1AFFE" >>, << "U+1BC9D", "U+1BC9E" >>,
      << "U+1BCA0", "U+1BCA3" >>, << "U+1CF00", "U+1CF2D" >>, << "U+1CF30", "U+1CF46" >>,
      << "U+1D167", "U+1D169" >>, << "U+1D173", "U+1D182" >>, << "U+1D185", "U+1D18B" >>,
      << "U+1D1AA", "U+1D1AD" >>, << "U+1D242", "U+1D244" >>, << "U+1DA00", "U+1DA36" >>,
      << "U+1DA3B", "U+1DA6C" >>, << "U+1DA75", "U+1DA75" >>, << "U+1DA84", "U+1DA84" >>,
      << "U+1DA9B", "U+1DA9F" >>, << "U+1DAA1", "U+1DAAF" >>, << "U+1E000", "U+1E006" >>,
      << "U+1E008", "U+1E018" >>, << "U+1E01B", "U+1E021" >>, << "U+1E023", "U+1E024" >>,
      << "U+1E026", "U+1E02A" >>, << "U+1E130", "U+1E13D" >>, << "U+1E2AE", "U+1E2AE" >>,
      << "U+1E2EC", "U+1E2EF" >>, << "U+1E8D0", "U+1E8D6" >>, << "U+1E944", "U+1E94B" >>,
      << "U+1F3FB", "U+1F3FF" >>, << "U+E0001", "U+E0001" >>, << "U+E0020", "U+E007F" >>,
      << "U+E0100", "U+E01EF" >>
    >>

\* the printable ASCII characters from U+0020 to U+007E, in order
Ascii ==
    << " ", "!", "\"", "#", "$", "%", "&", "'", "(", ")", "*", "+", ",", "-", ".", "/",
       "0", "1", "2", "3", "4", "5", "6", "7", "8", "9", ":", ";", "<", "=", ">", "?",
       "@", "A", "B", "C", "D", "E", "F", "G", "H", "I", "J", "K", "L", "M", "N", "O",
       "P", "Q", "R", "S", "T", "U", "V", "W", "X", "Y", "Z", "[", "\\", "]", "^", "_",
       "U+0060", "a", "b", "c", "d", "e", "f", "g", "h", "i", "j", "k", "l", "m", "n", "o",
       "p", "q", "r", "s", "t", "u", "v", "w", "x", "y", "z", "{", "|", "}", "~" >>

HexDigits ==
    << "0", "1", "2", "3", "4", "5", "6", "7", "8", "9", "A", "B", "C", "D", "E", "F" >>

\* the number the hexadecimal digits of c from place k on add to acc
RECURSIVE FromHex(_, _, _)
FromHex(c, k, acc) ==
    IF k > Len(c) THEN acc
    ELSE FromHex(c, k + 1,
                 16 * acc + (CHOOSE v \in 0..15 : HexDigits[v + 1] = SubSeq(c, k, k)))

\* ord(c)
CodePoint(c) ==
    IF Len(c) > 1 THEN FromHex(c, 3, 0)
    ELSE IF c = "\t" THEN 9
    ELSE IF c = "\n" THEN 10
    ELSE IF c = "\f" THEN 12
    ELSE IF c = "\r" THEN 13
    ELSE 31 + (CHOOSE k \in 1..Len(Ascii) : Ascii[k] = c)

\* whether c is in one of the ranges
InRanges(c, ranges) ==
    LET n == CodePoint(c)
        table == ranges
    IN  \E k \in 1..Len(table) :
            CodePoint(table[k][1]) <= n /\ n <= CodePoint(table[k][2])

\* whether the capital sigma at place i of s is in the Final_Sigma context:
\* a cased character before it and none after it, case-ignorable ones skipped
final_sigma(s, i) ==
    LET before == {j \in 1..(i - 1) : ~InRanges(s[j], CaseIgnorable)}
        after == {j \in (i + 1)..Len(s) : ~InRanges(s[j], CaseIgnorable)}
    IN  /\ before # {}
        /\ InRanges(s[Nth(before, Cardinality(before))], Cased)
        /\ after = {} \/ ~InRanges(s[Nth(after, 1)], Cased)

\* what s.lower() puts for the character at place i of s
lower_at(s, i) ==
    IF Len(s[i]) = 1
    THEN IF \E k \in 1..26 : UpperCase[k] = s[i]
         THEN << LowerCase[CHOOSE k \in 1..26 : UpperCase[k] = s[i]] >>
         ELSE << s[i] >>
    ELSE IF s[i] = "U+0130" THEN << "i", "U+0307" >>
    ELSE IF s[i] = "U+03A3"
    THEN << IF final_sigma(s, i) THEN "U+03C2" ELSE "U+03C3" >>
    ELSE LET upper == UpperCaseOther
         IN  IF \E k \in 1..Len(upper) : upper[k] = s[i]
             THEN << LowerCaseOther[CHOOSE k \in 1..Len(upper) : upper[k] = s[i]] >>
             ELSE << s[i] >>

\* s.lower(): U+0130 becomes two characters, every other one at most one
lower(s) ==
    LET two == {i \in 1..Len(s) : s[i] = "U+0130"}
        start(i) == i + Cardinality({k \in two : k < i})
    IN  IF two = {} THEN [i \in 1..Len(s) |-> lower_at(s, i)[1]]
        ELSE [j \in 1..(Len(s) + Cardinality(two)) |->
                 LET i == CHOOSE k \in 1..Len(s) :
                              start(k) <= j /\ j <= start(k) + (IF k \in two THEN 1 ELSE 0)
                 IN  lower_at(s, i)[j - start(i) + 1]]

\* s.replace(" ", "")
RemoveSpaces(s) == SelectSeq(s, LAMBDA c : c # " ")

---------------------------------------------------------------------------
(* The helpers of scripts/daily_tweet.py.                                  *)

\* A tips file is Nothing (no such file) or Just(the sequence of its lines);
\* the value is the list returned when the file can be opened and decoded.
read_tips_from_file(file) ==
    IF file = Nothing THEN << >>
    ELSE LET stripped == [i \in 1..Len(file[1]) |-> strip(file[1][i])]
         IN  SelectSeq(stripped, LAMBDA tip : tip # << >> /\ tip[1] # "#")

get_default_tips ==
    <<
      \* Write clear, descriptive variable and function names. Readers > cleverness.
        << "W", "r", "i", "t", "e", " ", "c", "l", "e", "a", "r", ",", " ", "d", "e", "s", "c",
           "r", "i", "p", "t", "i", "v", "e", " ", "v", "a", "r", "i", "a", "b", "l", "e", " ",
           "a", "n", "d", " ", "f", "u", "n", "c", "t", "i", "o", "n", " ", "n", "a", "m", "e",
           "s", ".", " ", "R", "e", "a", "d", "e", "r", "s", " ", ">", " ", "c", "l", "e", "v",
           "e", "r", "n", "e", "s", "s", "." >>,
      \* Prefer small, focused functions. One responsibility per function.
        << "P", "r", "e", "f", "e", "r", " ", "s", "m", "a", "l", "l", ",", " ", "f", "o", "c",
           "u", "s", "e", "d", " ", "f", "u", "n", "c", "t", "i", "o", "n", "s", ".", " ", "O",
           "n", "e", " ", "r", "e", "s", "p", "o", "n", "s", "i", "b", "i", "l", "i", "t", "y",
           " ", "p", "e", "r", " ", "f", "u", "n", "c", "t", "i", "o", "n", "." >>,
      \* Fail fast: validate inputs early and return on error conditions.
        << "F", "a", "i", "l", " ", "f", "a", "s", "t", ":", " ", "v", "a", "l", "i", "d", "a",
           "t", "e", " ", "i", "n", "p", "u", "t", "s", " ", "e", "a", "r", "l", "y", " ", "a",
           "n", "d", " ", "r", "e", "t", "u", "r", "n", " ", "o", "n", " ", "e", "r", "r", "o",
           "r", " ", "c", "o", "n", "d", "i", "t", "i", "o", "n", "s", "." >>,
      \* Write tests for edge cases first. They define behavior.
        << "W", "r", "i", "t", "e", " ", "t", "e", "s", "t", "s", " ", "f", "o", "r", " ", "e",
           "d", "g", "e", " ", "c", "a", "s", "e", "s", " ", "f", "i", "r", "s", "t", ".", " ",
           "T", "h", "e", "y", " ", "d", "e", "f", "i", "n", "e", " ", "b", "e", "h", "a", "v",
           "i", "o", "r", "." >>,
      \* Avoid premature optimization. Make it work, then make it fast.
        << "A", "v", "o", "i", "d", " ", "p", "r", "e", "m", "a", "t", "u", "r", "e", " ", "o",
           "p", "t", "i", "m", "i", "z", "a", "t", "i", "o", "n", ".", " ", "M", "a", "k", "e",
           " ", "i", "t", " ", "w", "o", "r", "k", ",", " ", "t", "h", "e", "n", " ", "m", "a",
           "k", "e", " ", "i", "t", " ", "f", "a", "s", "t", "." >>,
      \* Use version control branches for each change; keep commits atomic.
        << "U", "s", "e", " ", "v", "e", "r", "s", "i", "o", "n", " ", "c", "o", "n", "t", "r",
           "o", "l", " ", "b", "r", "a", "n", "c", "h", "e", "s", " ", "f", "o", "r", " ", "e",
           "a", "c", "h", " ", "c", "h", "a", "n", "g", "e", ";", " ", "k", "e", "e", "p", " ",
           "c", "o", "m", "m", "i", "t", "s", " ", "a", "t", "o", "m", "i", "c", "." >>,
      \* Document non-obvious decisions in code comments or ADRs.
        << "D", "o", "c", "u", "m", "e", "n", "t", " ", "n", "o", "n", "-", "o", "b", "v", "i",
           "o", "u", "s", " ", "d", "e", "c", "i", "s", "i", "o", "n", "s", " ", "i", "n", " ",
           "c", "o", "d", "e", " ", "c", "o", "m", "m", "e", "n", "t", "s", " ", "o", "r", " ",
           "A", "D", "R", "s", "." >>,
      \* Log context, not noise. Include identifiers that help debugging.
        << "L", "o", "g", " ", "c", "o", "n", "t", "e", "x", "t", ",", " ", "n", "o", "t", " ",
           "n", "o", "i", "s", "e", ".", " ", "I", "n", "c", "l", "u", "d", "e", " ", "i", "d",
           "e", "n", "t", "i", "f", "i", "e", "r", "s", " ", "t", "h", "a", "t", " ", "h", "e",
           "l", "p", " ", "d", "e", "b", "u", "g", "g", "i", "n", "g", "." >>,
      \* Handle errors explicitly. Never swallow exceptions silently.
        << "H", "a", "n", "d", "l", "e", " ", "e", "r", "r", "o", "r", "s", " ", "e", "x", "p",
           "l", "i", "c", "i", "t", "l", "y", ".", " ", "N", "e", "v", "e", "r", " ", "s", "w",
           "a", "l", "l", "o", "w", " ", "e", "x", "c", "e", "p", "t", "i", "o", "n", "s", " ",
           "s", "i", "l", "e", "n", "t", "l", "y", "." >>,
      \* Prefer composition over inheritance to reduce coupling.
        << "P", "r", "e", "f", "e", "r", " ", "c", "o", "m", "p", "o", "s", "i", "t", "i", "o",
           "n", " ", "o", "v", "e", "r", " ", "i", "n", "h", "e", "r", "i", "t", "a", "n", "c",
           "e", " ", "t", "o", " ", "r", "e", "d", "u", "c", "e", " ", "c", "o", "u", "p", "l",
           "i", "n", "g", "." >>,
      \* Keep dependencies up to date; pin versions for reproducibility.
        << "K", "e", "e", "p", " ", "d", "e", "p", "e", "n", "d", "e", "n", "c", "i", "e", "s",
           " ", "u", "p", " ", "t", "o", " ", "d", "a", "t", "e", ";", " ", "p", "i", "n", " ",
           "v", "e", "r", "s", "i", "o", "n", "s", " ", "f", "o", "r", " ", "r", "e", "p", "r",
           "o", "d", "u", "c", "i", "b", "i", "l", "i", "t", "y", "." >>,
      \* Automate formatting and linting to keep diffs clean.
        << "A", "u", "t", "o", "m", "a", "t", "e", " ", "f", "o", "r", "m", "a", "t", "t", "i",
           "n", "g", " ", "a", "n", "d", " ", "l", "i", "n", "t", "i", "n", "g", " ", "t", "o",
           " ", "k", "e", "e", "p", " ", "d", "i", "f", "f", "s", " ", "c", "l", "e", "a", "n",
           "." >>,
      \* Make data structures immutable unless mutation is required.
        << "M", "a", "k", "e", " ", "d", "a", "t", "a", " ", "s", "t", "r", "u", "c", "t", "u",
           "r", "e", "s", " ", "i", "m", "m", "u", "t", "a", "b", "l", "e", " ", "u", "n", "l",
           "e", "s", "s", " ", "m", "u", "t", "a", "t", "i", "o", "n", " ", "i", "s", " ", "r",
           "e", "q", "u", "i", "r", "e", "d", "." >>,
      \* Name booleans with positive intent (isEnabled, hasAccess).
        << "N", "a", "m", "e", " ", "b", "o", "o", "l", "e", "a", "n", "s", " ", "w", "i", "t",
           "h", " ", "p", "o", "s", "i", "t", "i", "v", "e", " ", "i", "n", "t", "e", "n", "t",
           " ", "(", "i", "s", "E", "n", "a", "b", "l", "e", "d", ",", " ", "h", "a", "s", "A",
           "c", "c", "e", "s", "s", ")", "." >>,
      \* Review diffs before pushing; consider readability and design.
        << "R", "e", "v", "i", "e", "w", " ", "d", "i", "f", "f", "s", " ", "b", "e", "f", "o",
           "r", "e", " ", "p", "u", "s", "h", "i", "n", "g", ";", " ", "c", "o", "n", "s", "i",
           "d", "e", "r", " ", "r", "e", "a", "d", "a", "b", "i", "l", "i", "t", "y", " ", "a",
           "n", "d", " ", "d", "e", "s", "i", "g", "n", "." >>,
      \* Prefer pure functions; minimize shared state.
        << "P", "r", "e", "f", "e", "r", " ", "p", "u", "r", "e", " ", "f", "u", "n", "c", "t",
           "i", "o", "n", "s", ";", " ", "m", "i", "n", "i", "m", "i", "z", "e", " ", "s", "h",
           "a", "r", "e", "d", " ", "s", "t", "a", "t", "e", "." >>,
      \* Use feature flags to roll out risky changes safely.
        << "U", "s", "e", " ", "f", "e", "a", "t", "u", "r", "e", " ", "f", "l", "a", "g", "s",
           " ", "t", "o", " ", "r", "o", "l", "l", " ", "o", "u", "t", " ", "r", "i", "s", "k",
           "y", " ", "c", "h", "a", "n", "g", "e", "s", " ", "s", "a", "f", "e", "l", "y", "." >>,
      \* Add metrics around hot paths; measure before optimizing.
        << "A", "d", "d", " ", "m", "e", "t", "r", "i", "c", "s", " ", "a", "r", "o", "u", "n",
           "d", " ", "h", "o", "t", " ", "p", "a", "t", "h", "s", ";", " ", "m", "e", "a", "s",
           "u", "r", "e", " ", "b", "e", "f", "o", "r", "e", " ", "o", "p", "t", "i", "m", "i",
           "z", "i", "n", "g", "." >>,
      \* Design APIs for ergonomics and clear failure modes.
        << "D", "e", "s", "i", "g", "n", " ", "A", "P", "I", "s", " ", "f", "o", "r", " ", "e",
           "r", "g", "o", "n", "o", "m", "i", "c", "s", " ", "a", "n", "d", " ", "c", "l", "e",
           "a", "r", " ", "f", "a", "i", "l", "u", "r", "e", " ", "m", "o", "d", "e", "s", "." >>,
      \* Write idempotent jobs so retries are safe.
        << "W", "r", "i", "t", "e", " ", "i", "d", "e", "m", "p", "o", "t", "e", "n", "t", " ",
           "j", "o", "b", "s", " ", "s", "o", " ", "r", "e", "t", "r", "i", "e", "s", " ", "a",
           "r", "e", " ", "s", "a", "f", "e", "." >>,
      \* Paginate APIs; never assume small datasets.
        << "P", "a", "g", "i", "n", "a", "t", "e", " ", "A", "P", "I", "s", ";", " ", "n", "e",
           "v", "e", "r", " ", "a", "s", "s", "u", "m", "e", " ", "s", "m", "a", "l", "l", " ",
           "d", "a", "t", "a", "s", "e", "t", "s", "." >>,
      \* Cache wisely: define TTLs and invalidation strategies.
        << "C", "a", "c", "h", "e", " ", "w", "i", "s", "e", "l", "y", ":", " ", "d", "e", "f",
           "i", "n", "e", " ", "T", "T", "L", "s", " ", "a", "n", "d", " ", "i", "n", "v", "a",
           "l", "i", "d", "a", "t", "i", "o", "n", " ", "s", "t", "r", "a", "t", "e", "g", "i",
           "e", "s", "." >>,
      \* Validate user input on both client and server.
        << "V", "a", "l", "i", "d", "a", "t", "e", " ", "u", "s", "e", "r", " ", "i", "n", "p",
           "u", "t", " ", "o", "n", " ", "b", "o", "t", "h", " ", "c", "l", "i", "e", "n", "t",
           " ", "a", "n", "d", " ", "s", "e", "r", "v", "e", "r", "." >>,
      \* Avoid magic numbers; extract constants with names.
        << "A", "v", "o", "i", "d", " ", "m", "a", "g", "i", "c", " ", "n", "u", "m", "b", "e",
           "r", "s", ";", " ", "e", "x", "t", "r", "a", "c", "t", " ", "c", "o", "n", "s", "t",
           "a", "n", "t", "s", " ", "w", "i", "t", "h", " ", "n", "a", "m", "e", "s", "." >>,
      \* Prefer UTC for timestamps and store ISO 8601 strings.
        << "P", "r", "e", "f", "e", "r", " ", "U", "T", "C", " ", "f", "o", "r", " ", "t", "i",
           "m", "e", "s", "t", "a", "m", "p", "s", " ", "a", "n", "d", " ", "s", "t", "o", "r",
           "e", " ", "I", "S", "O", " ", "8", "6", "0", "1", " ", "s", "t", "r", "i", "n", "g",
           "s", "." >>,
      \* Separate config from code; use environment variables.
        << "S", "e", "p", "a", "r", "a", "t", "e", " ", "c", "o", "n", "f", "i", "g", " ", "f",
           "r", "o", "m", " ", "c", "o", "d", "e", ";", " ", "u", "s", "e", " ", "e", "n", "v",
           "i", "r", "o", "n", "m", "e", "n", "t", " ", "v", "a", "r", "i", "a", "b", "l", "e",
           "s", "." >>,
      \* Keep functions under ~20-30 lines for readability.
        << "K", "e", "e", "p", " ", "f", "u", "n", "c", "t", "i", "o", "n", "s", " ", "u", "n",
           "d", "e", "r", " ", "~", "2", "0", "-", "3", "0", " ", "l", "i", "n", "e", "s", " ",
           "f", "o", "r", " ", "r", "e", "a", "d", "a", "b", "i", "l", "i", "t", "y", "." >>,
      \* Write meaningful commit messages: what and why.
        << "W", "r", "i", "t", "e", " ", "m", "e", "a", "n", "i", "n", "g", "f", "u", "l", " ",
           "c", "o", "m", "m", "i", "t", " ", "m", "e", "s", "s", "a", "g", "e", "s", ":", " ",
           "w", "h", "a", "t", " ", "a", "n", "d", " ", "w", "h", "y", "." >>,
      \* Use guards to reduce nesting and improve clarity.
        << "U", "s", "e", " ", "g", "u", "a", "r", "d", "s", " ", "t", "o", " ", "r", "e", "d",
           "u", "c", "e", " ", "n", "e", "s", "t", "i", "n", "g", " ", "a", "n", "d", " ", "i",
           "m", "p", "r", "o", "v", "e", " ", "c", "l", "a", "r", "i", "t", "y", "." >>,
      \* Prefer explicit over implicit; be obvious in code.
        << "P", "r", "e", "f", "e", "r", " ", "e", "x", "p", "l", "i", "c", "i", "t", " ", "o",
           "v", "e", "r", " ", "i", "m", "p", "l", "i", "c", "i", "t", ";", " ", "b", "e", " ",
           "o", "b", "v", "i", "o", "u", "s", " ", "i", "n", " ", "c", "o", "d", "e", "." >>,
      \* Add type hints where they add clarity and safety.
        << "A", "d", "d", " ", "t", "y", "p", "e", " ", "h", "i", "n", "t", "s", " ", "w", "h",
           "e", "r", "e", " ", "t", "h", "e", "y", " ", "a", "d", "d", " ", "c", "l", "a", "r",
           "i", "t", "y", " ", "a", "n", "d", " ", "s", "a", "f", "e", "t", "y", "." >>,
      \* Binary search your bugs: bisect changes to find regressions.
        << "B", "i", "n", "a", "r", "y", " ", "s", "e", "a", "r", "c", "h", " ", "y", "o", "u",
           "r", " ", "b", "u", "g", "s", ":", " ", "b", "i", "s", "e", "c", "t", " ", "c", "h",
           "a", "n", "g", "e", "s", " ", "t", "o", " ", "f", "i", "n", "d", " ", "r", "e", "g",
           "r", "e", "s", "s", "i", "o", "n", "s", "." >>,
      \* Use code reviews to learn and teach, not just to approve.
        << "U", "s", "e", " ", "c", "o", "d", "e", " ", "r", "e", "v", "i", "e", "w", "s", " ",
           "t", "o", " ", "l", "e", "a", "r", "n", " ", "a", "n", "d", " ", "t", "e", "a", "c",
           "h", ",", " ", "n", "o", "t", " ", "j", "u", "s", "t", " ", "t", "o", " ", "a", "p",
           "p", "r", "o", "v", "e", "." >>,
      \* Write integration tests for critical flows end-to-end.
        << "W", "r", "i", "t", "e", " ", "i", "n", "t", "e", "g", "r", "a", "t", "i", "o", "n",
           " ", "t", "e", "s", "t", "s", " ", "f", "o", "r", " ", "c", "r", "i", "t", "i", "c",
           "a", "l", " ", "f", "l", "o", "w", "s", " ", "e", "n", "d", "-", "t", "o", "-", "e",
           "n", "d", "." >>,
      \* Avoid global mutable state; pass context explicitly.
        << "A", "v", "o", "i", "d", " ", "g", "l", "o", "b", "a", "l", " ", "m", "u", "t", "a",
           "b", "l", "e", " ", "s", "t", "a", "t", "e", ";", " ", "p", "a", "s", "s", " ", "c",
           "o", "n", "t", "e", "x", "t", " ", "e", "x", "p", "l", "i", "c", "i", "t", "l", "y",
           "." >>,
      \* Structure modules by domain, not by technical layers only.
        << "S", "t", "r", "u", "c", "t", "u", "r", "e", " ", "m", "o", "d", "u", "l", "e", "s",
           " ", "b", "y", " ", "d", "o", "m", "a", "i", "n", ",", " ", "n", "o", "t", " ", "b",
           "y", " ", "t", "e", "c", "h", "n", "i", "c", "a", "l", " ", "l", "a", "y", "e", "r",
           "s", " ", "o", "n", "l", "y", "." >>,
      \* Monitor error budgets and prioritize reliability work.
        << "M", "o", "n", "i", "t", "o", "r", " ", "e", "r", "r", "o", "r", " ", "b", "u", "d",
           "g", "e", "t", "s", " ", "a", "n", "d", " ", "p", "r", "i", "o", "r", "i", "t", "i",
           "z", "e", " ", "r", "e", "l", "i", "a", "b", "i", "l", "i", "t", "y", " ", "w", "o",
           "r", "k", "." >>,
      \* Prefer dependency injection over hard-coded singletons.
        << "P", "r", "e", "f", "e", "r", " ", "d", "e", "p", "e", "n", "d", "e", "n", "c", "y",
           " ", "i", "n", "j", "e", "c", "t", "i", "o", "n", " ", "o", "v", "e", "r", " ", "h",
           "a", "r", "d", "-", "c", "o", "d", "e", "d", " ", "s", "i", "n", "g", "l", "e", "t",
           "o", "n", "s", "." >>,
      \* Make CLI tools idempotent and scriptable (exit codes, flags).
        << "M", "a", "k", "e", " ", "C", "L", "I", " ", "t", "o", "o", "l", "s", " ", "i", "d",
           "e", "m", "p", "o", "t", "e", "n", "t", " ", "a", "n", "d", " ", "s", "c", "r", "i",
           "p", "t", "a", "b", "l", "e", " ", "(", "e", "x", "i", "t", " ", "c", "o", "d", "e",
           "s", ",", " ", "f", "l", "a", "g", "s", ")", "." >>,
      \* Document APIs with examples; tests can serve as docs.
        << "D", "o", "c", "u", "m", "e", "n", "t", " ", "A", "P", "I", "s", " ", "w", "i", "t",
           "h", " ", "e", "x", "a", "m", "p", "l", "e", "s", ";", " ", "t", "e", "s", "t", "s",
           " ", "c", "a", "n", " ", "s", "e", "r", "v", "e", " ", "a", "s", " ", "d", "o", "c",
           "s", "." >>
    >>

hashtags ==
    << "\n", "\n", "#", "c", "o", "d", "i", "n", "g", " ", "#", "p", "r", "o", "g", "r",
       "a", "m", "m", "i", "n", "g", " ", "#", "d", "e", "v", "t", "i", "p", "s" >>

max_len == 280

\* build_tweet_text cutting a long tip without leaving room for the ellipsis
build_tweet_text_no_room(tip) ==
    LET allowed_tip_len == max_len - Len(hashtags)
    IN  IF Len(tip) > allowed_tip_len
        THEN rstrip(Prefix(tip, allowed_tip_len)) \o << Ellipsis >> \o hashtags
        ELSE tip \o hashtags

build_tweet_text(tip) ==
    LET allowed_tip_len == max_len - Len(hashtags)
    IN  IF Len(tip) > allowed_tip_len
        THEN rstrip(Prefix(tip, Max(0, allowed_tip_len - 1))) \o << Ellipsis >> \o hashtags
        ELSE tip \o hashtags

\* f"\n\n#news #{topic.lower().replace(' ', '')}"
base_hashtags(topic) ==
    << "\n", "\n", "#", "n", "e", "w", "s", " ", "#" >> \o RemoveSpaces(lower(topic))

\* the characters reserved for the shortened link
link_reserve == 25

build_news_tweet(title, url, topic) ==
    LET reserved == Len(base_hashtags(topic)) + link_reserve + 1
        allowed_title_len == max_len - reserved
        text == IF Len(title) > allowed_title_len
                THEN rstrip(Prefix(title, Max(0, allowed_title_len - 1))) \o << Ellipsis >>
                ELSE title
    IN  text \o << "\n" >> \o url \o base_hashtags(topic)

\* the first candidate that is not None and not blank, cut to 8 words
query_words == 8

derive_image_query(preferred_query, news_title, topic, tip) ==
    LET candidates == << preferred_query, news_title, topic, tip >>
        usable == {k \in 1..4 : candidates[k] # Nothing /\ strip(candidates[k][1]) # << >>}
    IN  IF usable = {} THEN << "t", "e", "c", "h", "n", "o", "l", "o", "g", "y" >>
        ELSE LET candidate == candidates[CHOOSE k \in usable : \A j \in usable : k <= j][1]
                 words == split(strip(candidate))
             IN  join(<< " " >>, Prefix(words, query_words))

\* The values of hashlib.sha256(date.isoformat().encode("utf-8")).digest()[:8]
\* at the dates the model uses.  DigestFirst8(IsoFormatBytes(date))
\* computes the same bytes, too slowly to be computed in every state.
Sha256Known ==
       [y |-> 2024, m |-> 12, d |-> 30] :> << 205, 239, 81, 63, 234, 79, 50, 55 >>
    @@ [y |-> 2024, m |-> 12, d |-> 31] :> << 221, 130, 54, 83, 51, 198, 107, 197 >>
    @@ [y |-> 2025, m |-> 1, d |-> 1] :> << 20, 151, 60, 89, 27, 38, 213, 17 >>
    @@ [y |-> 2025, m |-> 1, d |-> 2] :> << 141, 60, 65, 73, 14, 97, 32, 187 >>
    @@ [y |-> 2025, m |-> 1, d |-> 3] :> << 45, 91, 40, 223, 223, 148, 3, 147 >>
    @@ [y |-> 2025, m |-> 2, d |-> 27] :> << 89, 61, 242, 19, 232, 193, 236, 221 >>
    @@ [y |-> 2025, m |-> 2, d |-> 28] :> << 105, 70, 9, 79, 111, 233, 255, 119 >>
    @@ [y |-> 2025, m |-> 3, d |-> 1] :> << 100, 42, 233, 108, 231, 229, 164, 55 >>
    @@ [y |-> 2025, m |-> 3, d |-> 2] :> << 230, 42, 204, 175, 240, 101, 124, 244 >>
    @@ [y |-> 2025, m |-> 3, d |-> 3] :> << 167, 135, 244, 82, 18, 165, 219, 203 >>

KnownDates == DOMAIN Sha256Known

\* digest[:8] of a date of KnownDates
DateDigest(date) == Sha256Known[date]

\* deterministic_index reading the digest's bytes lowest first
deterministic_index_little_endian(total, date) ==
    IF total <= 0 THEN 0
    ELSE BigEndianMod([i \in 1..8 |-> DateDigest(date)[9 - i]], total, 0)

\* deterministic_index(total, date) for a date that is given; date_or_today
\* is "if date is None: date = datetime.date.today()"
deterministic_index(total, date) ==
    IF total <= 0 THEN 0
    ELSE BigEndianMod(DateDigest(date), total, 0)

\* the advance of one character in the proportional font of the draws below
glyph_advance(c) == IF c = "i" THEN 1 ELSE IF c = "m" THEN 3 ELSE 2

RECURSIVE text_advance(_)
text_advance(text) ==
    IF text = << >> THEN 0 ELSE glyph_advance(Head(text)) + text_advance(Tail(text))

\* draw.textbbox((0, 0), text, font=font), the box << left, top, right,
\* bottom >> of the text.  draw and font are arguments of wrap_text, and a
\* draw here is one of: "monospace", every character advance wide;
\* "proportional", the characters' own advances, the box starting at the
\* left bearing; "last_word", a draw whose box is that of the text after
\* its last blank only.
textbbox(draw, text) ==
    IF draw.kind = "monospace" THEN << 0, 0, draw.advance * Len(text), 1 >>
    ELSE IF draw.kind = "proportional"
    THEN << draw.bearing, 0, draw.bearing + text_advance(text), 1 >>
    ELSE LET blanks == {i \in 1..Len(text) : text[i] = " "}
             from == IF blanks = {} THEN 1 ELSE Nth(blanks, Cardinality(blanks)) + 1
         IN  << 0, 0, Len(text) - from + 1, 1 >>

\* the loop of wrap_text, lines 91-99, from the words not yet placed, and
\* lines 100-101 when none is left; here the word that does not fit is lost
RECURSIVE wrap_words_losing(_, _, _, _, _)
wrap_words_losing(words, lines, current, draw, max_width) ==
    IF words = << >>
    THEN IF current # << >> THEN Append(lines, join(<< " " >>, current)) ELSE lines
    ELSE LET word == Head(words)
             trial == strip(join(<< " " >>, Append(current, word)))
             bbox == textbbox(draw, trial)
             w == bbox[3] - bbox[1]
         IN  IF w <= max_width \/ current = << >>
             THEN wrap_words_losing(Tail(words), lines, Append(current, word),
                                    draw, max_width)
             ELSE wrap_words_losing(Tail(words), Append(lines, join(<< " " >>, current)),
                                    << >>, draw, max_width)

\* wrap_text losing the word that starts a new line
wrap_text_losing(text, draw, max_width) ==
    wrap_words_losing(split(text), << >>, << >>, draw, max_width)

\* the loop of wrap_text, lines 91-99, from the words not yet placed, and
\* lines 100-101 when none is left
RECURSIVE wrap_words(_, _, _, _, _)
wrap_words(words, lines, current, draw, max_width) ==
    IF words = << >>
    THEN IF current # << >> THEN Append(lines, join(<< " " >>, current)) ELSE lines
    ELSE LET word == Head(words)
             trial == strip(join(<< " " >>, Append(current, word)))
             bbox == textbbox(draw, trial)
             w == bbox[3] - bbox[1]
         IN  IF w <= max_width \/ current = << >>
             THEN wrap_words(Tail(words), lines, Append(current, word), draw, max_width)
             ELSE wrap_words(Tail(words), Append(lines, join(<< " " >>, current)),
                             << word >>, draw, max_width)

\* wrap_text(text, draw, font, max_width); the font is part of the draw
wrap_text(text, draw, max_width) ==
    wrap_words(split(text), << >>, << >>, draw, max_width)

\* The RSS feed's answer to fetch_top_news, by its status: "request_failed"
\* (the request or the XML parse raised), "no_channel", "no_item", or "item":
\* the first item, with title and link each Nothing (no such element) or
\* Just(its text; an element without text has the text "").
fetch_top_news(response) ==
    IF response.status # "item" THEN Nothing
    ELSE IF response.title = Nothing \/ response.link = Nothing THEN Nothing
    ELSE Just([title |-> strip(response.title[1]), link |-> strip(response.link[1])])

\* s.endswith(suffix)
endswith(s, suffix) ==
    Len(s) >= Len(suffix) /\ SubSeq(s, Len(s) - Len(suffix) + 1, Len(s)) = suffix

image_extensions ==
    { << ".", "j", "p", "g" >>, << ".", "j", "p", "e", "g" >>, << ".", "p", "n", "g" >> }

\* os.environ: a variable is None (unset) or a string; "not val" holds of
\* None and of the empty string.
Unset(environ, name) == environ[name] = None \/ environ[name] = ""

\* os.environ.get("RUNNER_TEMP") or "/tmp"
tmp_dir(environ) ==
    IF Unset(environ, "RUNNER_TEMP") THEN "/tmp" ELSE environ["RUNNER_TEMP"]

\* the names between the separators of a path, in order
components(path) ==
    LET n == Len(path)
        starts == {i \in 1..n : /\ SubSeq(path, i, i) # "/"
                                /\ i = 1 \/ SubSeq(path, i - 1, i - 1) = "/"}
        ends == {i \in 1..n : /\ SubSeq(path, i, i) # "/"
                              /\ i = n \/ SubSeq(path, i + 1, i + 1) = "/"}
    IN  [k \in 1..Cardinality(starts) |-> SubSeq(path, Nth(starts, k), Nth(ends, k))]

\* whether there is a directory dir: it is the root, one of directories, or
\* one that a directory of directories is in
is_dir(dir, directories) ==
    \/ dir = "/"
    \/ \E d \in directories :
           \/ d = dir
           \/ Len(d) > Len(dir) /\ SubSeq(d, 1, Len(dir) + 1) = dir \o "/"

\* the directory that holds dir
parent(dir) ==
    LET names == components(dir)
    IN  IF Len(names) <= 1 THEN "/"
        ELSE SubSeq(dir, 1, Len(dir) - Len(names[Len(names)]) - 1)

\* the directory the file system reaches from the directory at by the
\* names, one after the other: Nothing when one on the way is missing
RECURSIVE walk(_, _, _)
walk(at, names, directories) ==
    IF ~is_dir(at, directories) THEN Nothing
    ELSE IF names = << >> THEN Just(at)
    ELSE LET name == Head(names)
             next == IF name = "." THEN at
                     ELSE IF name = ".." THEN parent(at)
                     ELSE IF at = "/" THEN "/" \o name
                     ELSE at \o "/" \o name
         IN  walk(next, Tail(names), directories)

\* the directory a path names in a process whose working directory is cwd:
\* a path that does not begin with the separator starts from cwd
resolve(path, directories, cwd) ==
    walk(IF SubSeq(path, 1, 1) = "/" THEN "/" ELSE cwd, components(path), directories)

\* whether a file can be created in tmp_dir: the path leads to a directory
can_write(environ, directories, cwd) ==
    resolve(tmp_dir(environ), directories, cwd) # Nothing

\* The image search's answer to fetch_image_from_google, by its status:
\* "request_failed", or "ok" with items, the links of the results in order
\* (Nothing: the result has no link), and download_ok, whether the GET of
\* the chosen link succeeds.  writable: whether open(output_path, "wb")
\* succeeds; its failure is caught with the others.  The value is Nothing
\* (the function returns None) or Just(the link whose content is written to
\* output_path).  The function is this one once "import requests" succeeded.
fetch_image_from_google(environ, response, writable) ==
    IF Unset(environ, "GOOGLE_API_KEY") \/ Unset(environ, "GOOGLE_CSE_ID") THEN Nothing
    ELSE IF response.status = "request_failed" THEN Nothing
    ELSE LET links == SelectSeq(response.items, LAMBDA l : l # Nothing /\ l[1] # << >>)
             with_ext == SelectSeq(links,
                            LAMBDA l : \E ext \in image_extensions : endswith(lower(l[1]), ext))
             candidates == IF with_ext = << >> THEN links ELSE with_ext
         IN  IF candidates = << >> THEN Nothing
             ELSE IF ~response.download_ok \/ ~writable THEN Nothing
             ELSE Just(candidates[1][1])

\* whether fetch_image_from_google sends a request at all
image_search_requested(environ) ==
    ~(Unset(environ, "GOOGLE_API_KEY") \/ Unset(environ, "GOOGLE_CSE_ID"))

\* "if x:" on an Optional[str] x: neither None nor the empty string
truthy(x) == x # None /\ x # ""

twitter_variables ==
    << "TWITTER_API_KEY", "TWITTER_API_SECRET", "TWITTER_ACCESS_TOKEN",
       "TWITTER_ACCESS_TOKEN_SECRET" >>

\* post_to_twitter: the exception it raises (raised = None: it returns).  outcome is what
\* tweepy does once the credentials are there: "posted", "import_failed",
\* "upload_failed" (media_upload is called with a media_path that is neither
\* None nor empty, line 221) or "update_failed".
post_to_twitter(media_path, environ, outcome) ==
    LET missing == SelectSeq(twitter_variables, LAMBDA name : Unset(environ, name))
    IN  IF missing # << >>
        THEN [raised |-> "RuntimeError",
              message |-> << "Missing required environment variables: " >> \o missing]
        ELSE IF outcome = "import_failed"
        THEN [raised |-> "ImportError", message |-> << "tweepy" >>]
        ELSE IF outcome = "upload_failed" /\ truthy(media_path)
        THEN [raised |-> "TweepyException", message |-> << "media_upload" >>]
        ELSE IF outcome = "update_failed"
        THEN [raised |-> "TweepyException", message |-> << "update_status" >>]
        ELSE [raised |-> None, message |-> << >>]

\* generate_image_with_text where img.save succeeds: None without Pillow,
\* else the path written
generate_image_with_text(pil_available, output_path) ==
    IF ~pil_available THEN None ELSE output_path

\* the exception generate_image_with_text raises (None: it returns): img.save
\* is reached with Pillow only and fails when the file cannot be created
generate_image_raises(pil_available, writable) ==
    IF pil_available /\ ~writable THEN "FileNotFoundError" ELSE None

\* the exception read_tips_from_file raises (None: it returns): the file is
\* there and its bytes are not UTF-8
read_tips_raises(file, decodable) ==
    IF file # Nothing /\ ~decodable THEN "UnicodeDecodeError" ELSE None

\* the exception of "import requests" (None: the package is installed)
import_requests_raises(installed) ==
    IF installed THEN None ELSE "ModuleNotFoundError"

\* base_hues of pick_colors
base_hues == << 200, 220, 260, 300, 180, 160, 210 >>

\* how many draws after a seed random_bits holds
MaxDraws == 8

\* What the random module's generator gives once random.seed(seed) ran: the
\* string at place seed + 1 holds, digit by digit, the values of the first
\* MaxDraws calls of getrandbits(3), for the seeds 0 .. seed_modulus - 1 that
\* deterministic_index gives.
random_bits ==
    <<
       "63673027", "14666020", "76760002", "14412743", "12053310", "42526576", "64603620", "27135006",
       "12731150", "34221165", "40334013", "36467633", "32545213", "22575667", "04565471", "71045017",
       "23323130", "43627221", "10532117", "50674041", "75566771", "13535236", "77110473", "76727600",
       "53641171", "36766017", "57151344", "53527210", "05144511", "40246420", "46240456", "03063150",
       "07112571", "41516623", "42406170", "42615261", "20707677", "54074565", "53365002", "12301135",
       "34740125", "32171773", "50052111", "02561732", "34456013", "23320220", "70304467", "20343422",
       "42145426", "02370264", "36225715", "16441167", "72075436", "46713453", "77134237", "07711752",
       "76403542", "02440142", "41155771", "10757301", "22412163", "31416722", "74107617", "33277235",
       "30543475", "32246133", "02371632", "00637332", "53755674", "50061042", "70253312", "24460271",
       "06457125", "20434132", "64460206", "34330564", "23731720", "62211167", "61027556", "13241115",
       "23475673", "46324433", "16374276", "36630130", "52760304", "15460277", "66046725", "15176640",
       "37127150", "06457212", "15035442", "04175513", "34444642", "76374527", "41062236", "64477546",
       "22753710", "13672766", "24602307", "33141111", "13376153", "46177472", "15421455", "75375556",
       "70615613", "74246070", "57730474", "14467553", "15607535", "21334001", "77366413", "67177231",
       "36544253", "05665203", "14025715", "72160402", "65445206", "11113614", "55120522", "72156745",
       "41177755", "01463571", "41462770", "02063206", "72401770", "71166424", "40443151", "07444600",
       "76134213", "46642077", "43265563", "22640320", "31307170", "32326466", "34157475", "52554232",
       "43403361", "01327113", "13375214", "07544477", "66002045", "46046314", "45553132", "71670011",
       "30307651", "66637403", "11426601", "45177334", "35567706", "00231100", "62731126", "53667555",
       "76351371", "73002563", "16763361", "44477275", "33751621", "43110022", "57717600", "31531461",
       "04231742", "41411777", "05751413", "44374136", "05277233", "00757303", "15433026", "16023276",
       "50423114", "24414404", "62764220", "66437307", "21126250", "23566656", "60370320", "31054565",
       "00671606", "71334157", "70747351", "76106007", "10504204", "45002726", "32117227", "00560226",
       "20157752", "76601126", "25364637", "26364146", "65671270", "36521440", "01627211", "64646744",
       "26203273", "43776172", "64041236", "43051756", "54555067", "40110514", "04530557", "25362552",
       "07155014", "05230622", "63533611", "00634710", "36074113", "33504633", "00275161", "45546715",
       "24610464", "45017420", "30575637", "42510277", "34705402", "13120134", "45232546", "05720621",
       "61515330", "72112510", "21067422", "55240255", "56151325", "13032466", "60122003", "22313645",
       "06130747", "57115574", "30654447", "37675203", "76551411", "41174362", "51267575", "60716366",
       "20160067", "56514166", "22606473", "25460100", "52375203", "43717163", "62035500", "01651303",
       "64007721", "54602756", "20347743", "77423034", "76665336", "12303265", "70435205", "32026366",
       "63576351", "24642746", "33714505", "35354431", "64075241", "44336155", "24235210", "02556407",
       "32323603", "23024441", "56017431", "06403473", "10734431", "37701704", "26433226", "57667677",
       "46524141", "63362347", "70455035", "10372700", "67442063", "00706642", "61260546", "35225124",
       "73205732", "15541254", "13230610", "66604524", "20176676", "70711501", "72320357", "32670317",
       "23557057", "02203374", "50753576", "50164627", "06220632", "42344302", "30250053", "40220713",
       "76273653", "66265103", "47273401", "53557460", "61621562", "33014430", "10371750", "66265326",
       "07722450", "42577305", "14541412", "24510374", "42270324", "35673435", "74464337", "01751074",
       "11346730", "14435524", "37461264", "54265243", "11732264", "02011771", "40152127", "62250733",
       "51530512", "41753360", "13010552", "35320245", "06760627", "30563011", "55033631", "17706546",
       "34503420", "23124732", "65663101", "57501420", "41567530", "46140775", "03206330", "60643256",
       "54623360", "63242132", "77407034", "65261166", "14464354", "42217302", "71467331", "10634360",
       "06547114", "13642504", "03233165", "16765130", "34074664", "42471700", "01400037", "13677134",
       "33027574", "62017301", "41477404", "24357231", "62671113", "34325342", "72613652", "64422522",
       "72150572", "00365043", "11050666", "10432701", "50362334", "12750171", "67113527", "07434364",
       "71217507", "74156333", "67444727", "61604120", "60037070", "52756124", "03560143", "07457307",
       "73400176", "62767275", "05676244", "24334770", "05765210", "00755605", "21546611", "12153167",
       "55533215", "14057106", "02535317", "01446254", "71264346", "33740170", "02121460", "46431130",
       "56306456", "70633420", "42534330", "31076161", "67222567", "57524634", "44074774", "31755157",
       "47334675", "22170763", "71125130", "22071777", "02524612", "00336505", "73314323", "01540410",
       "24266043", "30366264", "63055332", "14206172", "07370405", "01755360", "37363425", "56066243",
       "65327414", "64431473", "15720520", "10214117", "26560071", "66563104", "36267457", "62162117",
       "26044457", "74665005", "22021254", "45511722", "05622306", "54426735", "32027440", "21456675",
       "43655107", "30120454", "12552017", "14636201", "26043074", "47070201", "25101713", "72607560",
       "45530666", "15300342", "20413462", "76614362", "33631162", "42060104", "14446057", "32232463",
       "06062721", "17635641", "26343633", "61055722", "22023262", "43103577", "63645545", "35404336",
       "21072106", "11153054", "03766513", "04135207", "22555220", "13435737", "24545425", "76503646",
       "53733367", "61724235", "04430072", "75665136", "25635034", "52604444", "45076735", "16347606",
       "21464116", "17106501", "70021677", "23300370", "71304015", "26252353", "05211476", "75770525",
       "71717530", "22002505", "07037612", "77006545", "35427242", "43702514", "72610402", "76734444",
       "34652455", "55373513", "44273564", "45642200", "41320503", "11613622", "11321173", "67674226",
       "04557245", "77143470", "75343745", "36336645", "64606272", "72577624", "54565671", "51174074",
       "57330662", "24756121", "33461126", "01663243", "63744325", "52521562", "42152565", "11251321",
       "36426066", "12622253", "66323437", "37447135", "46533002", "56731715", "56426330", "03011355",
       "06312732", "01174153", "20551133", "12727106", "65614664", "63757536", "77624224", "43072112",
       "70076337", "00622365", "01366746", "75572643", "17042320", "64703761", "71110236", "77736256",
       "60664206", "57156617", "72056461", "75517534", "15410732", "31522635", "37413412", "16335745",
       "51544660", "53711034", "22063012", "21647750", "44520324", "20331714", "30131134", "65777103",
       "56202442", "15757555", "02337052", "00522631", "70604616", "75131754", "63315201", "45566101",
       "05054663", "30313033", "42162713", "12114570", "53175456", "04054766", "73624045", "04736772",
       "65035305", "44114211", "52566760", "45662501", "72152023", "75663627", "67347627", "12306667",
       "00466375", "46740202", "01020076", "12604630", "71372246", "55566271", "24470213", "25756073",
       "65473104", "32502337", "62154563", "27363515", "44276075", "50122735", "15706163", "47025145",
       "45210324", "00571342", "52067420", "75665270", "57763210", "02512755", "07043336", "43403610",
       "03741017", "72225605", "13541200", "77225453", "31716115", "07123770", "66055347", "50204370",
       "72253174", "15445003", "31245235", "14423045", "01736726", "17473430", "57025352", "50760120",
       "15715735", "54201551", "33277222", "47725175", "66116447", "21606437", "21451040", "13055116",
       "05346412", "53362260", "35713025", "47051351", "13434465", "24442662", "20763520", "03160634",
       "17011246", "73244702", "26010515", "72540110", "73044503", "02367404", "73174704", "62261141",
       "21740660", "02776020", "11550436", "22664323", "17760154", "31261033", "51357253", "56473551",
       "05310261", "37040366", "57263474", "47364241", "32370434", "14136020", "47462544", "75742507",
       "51424766", "27123447", "25517333", "06415005", "14464367", "57377413", "54352555", "60120776",
       "55534004", "42622252", "12054357", "52631061", "05563276", "71632606", "50012262", "75403065",
       "65764737", "44143213", "37733240", "04353222", "30031071", "24435122", "42513133", "64163533",
       "00151647", "42331062", "30077715", "16236725", "06654354", "50505134", "07202601", "75447362",
       "43641666", "35207363", "41140357", "36770216", "35437446", "26701024", "77442725", "37164776",
       "67752273", "41620737", "25371356", "51103726", "60577143", "31457217", "53626503", "27514624",
       "16163543", "14026767", "66727373", "21765040", "17135164", "52300644", "66601076", "02137513",
       "64255426", "62022533", "47772555", "04572454", "06656752", "45201010", "35435132", "43353213",
       "24330531", "35223535", "60072023", "40166100", "13561170", "15176417", "26517331", "27505142",
       "57105166", "15316523", "45112743", "41121522", "75260505", "03004472", "26276307", "74714055",
       "70364574", "57262450", "20427445", "50547670", "50635556", "37531641", "52627756", "36104370",
       "20007303", "04101716", "61025116", "15523515", "46066211", "16457073", "37217405", "57247003",
       "26462406", "15542771", "34136347", "27506322", "01722630", "63563651", "23171340", "65407727",
       "47507723", "62076257", "15371571", "64322024", "36246425", "34131362", "20664652", "07407726",
       "10620103", "14651424", "75271316", "40730706", "77510773", "03132171", "26612225", "67500531",
       "02327173", "01450742", "31763676", "73113302", "07674250", "13525243", "20064373", "37071536",
       "36455303", "13372426", "02167265", "44661364", "15626575", "11317230", "50224232", "44611332",
       "37740217", "40713775", "62052511", "23531240", "43760621", "35503134", "57752350", "51401611",
       "47466734", "64520405", "21402773", "37331226", "43344337", "74731034", "32303172", "61653305",
       "53740336", "01206630", "41422627", "01343015", "35307260", "31660520", "73042424", "25061162",
       "23525136", "07316664", "56437016", "01744730", "03475227", "71064546", "41611502", "70204223",
       "14073300", "14226125", "34264366", "26112215", "12743077", "45732627", "70773215", "24611606",
       "56661420", "25752467", "46523271", "26234043", "11501471", "12361477", "05612766", "12735107",
       "55424471", "44224105", "27114174", "45756651", "30457550", "42306424", "44245662", "46062511",
       "17334633", "45574314", "70314025", "54405656", "56544710", "02504714", "00371172", "37631466",
       "63636077", "05065272", "67363045", "43523733", "66403633", "32625622", "76225644", "16721554",
       "16716406", "73553665", "44021365", "46100754", "11500424", "63375077", "45154061", "46624775",
       "27302511", "34466035", "70101270", "67615367", "31244001", "35314136", "13302242", "24606350",
       "46313335", "15452675", "41220013", "42576236", "50523300", "16636167", "64427662", "06421701",
       "70052775", "52163576", "70556721", "40124477", "65606537", "23776062", "14430126", "33361176",
       "03437335", "54651401", "06227265", "75324166", "16255613", "46217523", "33265210", "57031641",
       "14012655", "06062326", "31027053", "61054512", "74126050", "35204137", "72553304", "05502314",
       "57742434", "52264340", "02746206", "53071227", "50631602", "15356110", "44365045", "33756317",
       "45772143", "00365774", "02665064", "12623660", "54757164", "66447770", "65535012", "54522146",
       "42351210", "77223041", "04767737", "63142457", "46230535", "77007652", "53616426", "57107017",
       "23416176", "14066276", "74603264", "63354466", "46067545", "44144050", "31000721", "65533021",
       "17737104", "41504341", "33275451", "70111200", "27200527", "24435655", "73165514", "41451567",
       "02744206", "32556177", "05567232", "15272401", "42670640", "25256224", "11566737", "66126722",
       "05031010", "01352531", "14056551", "53324314", "53135537", "31761223", "27747731", "31053310",
       "34177027", "56400374", "24553213", "74662117", "66434470", "13235252", "02543233", "74016364",
       "60267465", "37574067", "62506054", "21775210", "50431366", "14073526", "77244644", "35505446",
       "62551650", "56054225", "74160361", "31610721", "32771612", "71012772", "40620362", "54643744",
       "65503107", "27120733", "07702104", "46465470", "72404010", "60612752", "64052626", "13512261",
       "71266075", "07014244", "71674673", "16266517", "77337100", "33221727", "13744731", "65076444" >>

\* getrandbits(3) of a generator seeded with seed that has made drawn draws
getrandbits(seed, drawn) ==
    LET digit == SubSeq(random_bits[seed + 1], drawn + 1, drawn + 1)
    IN  CHOOSE bits \in 0..7 : SubSeq("01234567", bits + 1, bits + 1) = digit

\* (c1, c2) of pick_colors for a hue: hsl_to_rgb(hue, 0.45, 0.60) and
\* hsl_to_rgb((hue + 40) % 360, 0.45, 0.40), as colorsys.hls_to_rgb and the
\* truncation to integers give them
hsl_to_rgb(hue) ==
    CASE hue = 200 -> << << 107, 168, 198 >>, << 56, 56, 147 >> >>
      [] hue = 220 -> << << 107, 137, 198 >>, << 86, 56, 147 >> >>
      [] hue = 260 -> << << 137, 107, 198 >>, << 147, 56, 147 >> >>
      [] hue = 300 -> << << 198, 107, 198 >>, << 147, 56, 86 >> >>
      [] hue = 180 -> << << 107, 198, 198 >>, << 56, 86, 147 >> >>
      [] hue = 160 -> << << 107, 198, 168 >>, << 56, 117, 147 >> >>
      [] hue = 210 -> << << 107, 152, 198 >>, << 71, 56, 147 >> >>

\* The content of an image file: what was written last and, in tail, the
\* file whose end is left behind it (Nothing: the file ends with the content).

\* what generate_image_with_text draws: a function of the text and of the
\* colours pick_colors returned
rendered_image(text, colors) ==
    [kind |-> "generated", text |-> text, colors |-> colors, link |-> << >>,
     tail |-> Nothing]

\* what fetch_image_from_google writes: the content behind the link
downloaded_image(link) ==
    [kind |-> "downloaded", text |-> << >>, colors |-> << >>, link |-> link,
     tail |-> Nothing]

\* the file open(output_path, "wb"), or img.save(output_path), leaves until
\* the content is written
empty_file ==
    [kind |-> "empty", text |-> << >>, colors |-> << >>, link |-> << >>, tail |-> Nothing]

\* os.path.join(a, b) for a relative b: no separator is added after an
\* empty a or an a that ends with one
path_join(a, b) ==
    IF a = "" \/ SubSeq(a, Len(a), Len(a)) = "/" THEN a \o b ELSE a \o "/" \o b

\* os.path.join(os.environ.get("RUNNER_TEMP") or "/tmp", "daily_tweet.jpg")
desired_output(environ) == path_join(tmp_dir(environ), "daily_tweet.jpg")

\* tips = read_tips_from_file(...); if not tips: tips = get_default_tips()
load_tips(file) ==
    LET tips == read_tips_from_file(file)
    IN  IF tips = << >> THEN get_default_tips ELSE tips

\* the media stage looking at no_image only
media_enabled_whatever_source(a) == ~a.no_image

\* not no_image and image_source != "none"
media_enabled(a) == ~a.no_image /\ a.image_source # "none"

\* every run posts
posts_always(a) == TRUE

\* "if dry_run: return" not taken
posts(a) == ~a.dry_run

\* tips[deterministic_index(len(tips))] on the date the clock shows
tip_choice(file, now) ==
    LET tips == load_tips(file)
        idx == deterministic_index(Len(tips), now)
    IN  [total |-> Len(tips), idx |-> idx, tip |-> tips[idx + 1]]

\* the tip a run posts: the news lookup gave nothing / no topic was given
fallback_tip_choice(file, now) == tip_choice(file, now)
content_tip_choice(file, now) == tip_choice(file, now)

\* the tip an image query is derived from
query_tip_choice(file, now) == tip_choice(file, now)

\* the modulus of the seed of a news image
seed_modulus == 1000

\* "x or y" on an Optional[str] x
text_or(x, y) == IF x # Nothing /\ x[1] # << >> THEN x[1] ELSE y

\* the text and seed of the image generated after a failed image search
fallback_image_args(a, title, file, now) ==
    IF strip(a.news_topic) # << >>
    THEN [text |-> text_or(title, strip(a.news_topic)),
          seed |-> deterministic_index(seed_modulus, now),
          total |-> seed_modulus]
    ELSE LET c == tip_choice(file, now)
         IN  [text |-> c.tip, seed |-> c.idx, total |-> c.total]

\* the text and seed of the image generated when image_source is not "google"
generated_image_args(a, title, file, now) ==
    IF strip(a.news_topic) # << >>
    THEN [text |-> text_or(title, strip(a.news_topic)),
          seed |-> deterministic_index(seed_modulus, now),
          total |-> seed_modulus]
    ELSE LET c == tip_choice(file, now)
         IN  [text |-> c.tip, seed |-> c.idx, total |-> c.total]

\* "x or None" on a str x
or_none(x) == IF x = << >> THEN Nothing ELSE Just(x)

---------------------------------------------------------------------------
(* The inputs the model draws from.                                        *)

\* the length of a text too long for a tweet
LongLen == 300
\* how many midnights may pass during a run
MaxTicks == 1
\* how many characters past a limit the texts at a limit go
Slack == 1

\* n characters, a space at every period-th place (none for period = 0)
Filler(n, period) ==
    [i \in 1..n |-> IF period > 0 /\ i % period = 0 THEN " " ELSE "a"]

StartDates == { [y |-> 2025, m |-> 3, d |-> 1] }

Topics == { << >>, << " " >>, << " ", "A", "I", " ", "N", "e", "w", "s", " " >> }

Queries ==
    { << >>,
      << "r", "e", "d", " ", "f", "o", "x", " ", "a", "t", " ", "t", "h", "e", " ",
         "o", "l", "d", " ", "m", "i", "l", "l", " ", "b", "y", " ", "a", " ",
         "r", "i", "v", "e", "r" >> }

ImageSources == { "generated", "google", "none", "unsplash" }

\* image_query is read only when image_source is "google"
ArgsSet ==
    { a \in [dry_run : BOOLEAN, no_image : BOOLEAN, image_source : ImageSources,
              image_query : Queries, news_topic : Topics] :
        a.image_query = << >> \/ a.image_source = "google" }

TipsFiles ==
    { Nothing,
      Just(<< << "#", " ", "t", "i", "p", "s" >>, << >>, << " ", "\t" >> >>),
      Just(<< << "#", "x" >>,
              << " ", "S", "h", "o", "r", "t", " ", "t", "i", "p", ".", " ", "\n" >>,
              Filler(LongLen, 50) >>) }

EnvAllSet ==
    [TWITTER_API_KEY |-> "key", TWITTER_API_SECRET |-> "secret",
     TWITTER_ACCESS_TOKEN |-> "token", TWITTER_ACCESS_TOKEN_SECRET |-> "token-secret",
     GOOGLE_API_KEY |-> "gkey", GOOGLE_CSE_ID |-> "cse", RUNNER_TEMP |-> None]

EnvRunnerTemp ==
    [EnvAllSet EXCEPT !.TWITTER_API_SECRET = None, !.TWITTER_ACCESS_TOKEN = "",
                      !.RUNNER_TEMP = "/home/runner/work/_temp"]

EnvNoSearch == [EnvAllSet EXCEPT !.GOOGLE_CSE_ID = None, !.RUNNER_TEMP = ""]

\* RUNNER_TEMP names a directory from the working directory
EnvRelative == [EnvAllSet EXCEPT !.RUNNER_TEMP = "w"]

Environments == { EnvAllSet, EnvRunnerTemp, EnvNoSearch, EnvRelative }

Headline == << " ", "C", "h", "i", "p", "s", " ", "a", "r", "e", " ", "u", "p", " " >>

NewsResponses ==
    { [status |-> "request_failed"], [status |-> "no_channel"], [status |-> "no_item"],
      [status |-> "item", title |-> Just(Headline), link |-> Nothing],
      [status |-> "item", title |-> Just(<< >>), link |-> Just(<< >>)] }
    \cup [status : {"item"},
          title : {Just(Headline), Just(Filler(LongLen, 60))},
          link : {Just(Filler(link_reserve + k, 0)) : k \in 0..Slack}]

ImageLinkPage == << "h", "t", "t", "p", ":", "/", "/", "x", "/", "p" >>
ImageLinkPng == << "h", "t", "t", "p", ":", "/", "/", "x", "/", "i", ".", "P", "N", "G" >>

ImageResponses ==
    { [status |-> "request_failed"],
      [status |-> "ok", items |-> << >>, download_ok |-> TRUE],
      [status |-> "ok", items |-> << Nothing >>, download_ok |-> TRUE],
      [status |-> "ok", items |-> << Just(ImageLinkPage), Just(ImageLinkPng) >>,
       download_ok |-> TRUE],
      [status |-> "ok", items |-> << Just(ImageLinkPage) >>, download_ok |-> TRUE],
      [status |-> "ok", items |-> << Just(ImageLinkPng) >>, download_ok |-> FALSE] }

PostOutcomes == { "posted", "import_failed", "upload_failed", "update_failed" }

AllPaths == { desired_output(e) : e \in Environments }

\* The hosts of a run: its environment, the directories there are and the
\* working directory of the process.  A run meets the directories and the
\* working directory only on the way to the directory of its image file, so
\* that the hosts are those that differ in it: RUNNER_TEMP unset, empty,
\* absolute and there, absolute and missing, relative and there, relative
\* and missing.
Hosts ==
    { [environ |-> EnvAllSet, directories |-> {"/tmp"}, cwd |-> "/"],
      [environ |-> EnvNoSearch, directories |-> {"/tmp"}, cwd |-> "/"],
      [environ |-> EnvRunnerTemp, directories |-> {"/tmp", "/home/runner/work/_temp"},
       cwd |-> "/"],
      [environ |-> EnvRunnerTemp, directories |-> {"/tmp"}, cwd |-> "/"],
      [environ |-> EnvRelative, directories |-> {"/tmp", "/tmp/w"}, cwd |-> "/tmp"],
      [environ |-> EnvRelative, directories |-> {"/tmp", "/tmp/w"}, cwd |-> "/tmp/w"] }

\* the values argparse accepts for --image-source
choices == { "generated", "google", "none" }

---------------------------------------------------------------------------
(* run_daily_tweet and main as a state machine.  A run is at "argv" (main   *)
(* has its command line to parse), "content", "media", "searching" (it     *)
(* waits for the image search and the download), "writing" (the downloaded *)
(* image's file is open and still empty), "fallback" (the image search     *)
(* gave nothing), "rendering" (generate_image_with_text is called),        *)
(* "seeded" (pick_colors has seeded the generator), "drawing" (it has its  *)
(* colours), "saving" (the generated image's file is open and still        *)
(* empty), "deliver", "done" (it returned) or "raised" (an exception left  *)
(* the entry point).  A step has one access to what the runs share: a read *)
(* of the clock, one operation on the generator of the random module, or   *)
(* one operation on the image file.                                        *)

VARIABLES
    today,          \* datetime.date.today()
    ticks,          \* midnights passed so far
    environ,        \* os.environ
    PIL_AVAILABLE,  \* whether Pillow was imported
    requests_installed,  \* whether "import requests" succeeds
    tips_file,      \* the content of the tips file
    tips_decodable, \* whether the bytes of the tips file are UTF-8
    directories,    \* the directories there are
    cwd,            \* os.getcwd(): the working directory of the process
    disk,           \* the image files: path -> Nothing or Just(image)
    generator,      \* the generator of the random module, which the runs of a
                    \* process share: Nothing (seeded by the system), or Just(the
                    \* seed set last and how many draws were made since)
    pc,             \* per run: where it is
    entry,          \* per run: its entry point, "run_daily_tweet" or "main"
    args,           \* per run: the arguments, or the options of the command line
    tweet_text, news_title, news_url, media_path,   \* per run: its locals
    image_call,     \* per run: the arguments of its image call under way
    result,         \* per run: Nothing, or Just(the dict returned)
    escaped,        \* per run: Nothing, or Just(the exception that left the run)
    calls,          \* per run: the calls made so far, in order
    fn_in, fn_out   \* a helper called on its own: its input, its results

world == << today, ticks, environ, PIL_AVAILABLE, requests_installed, tips_file,
            tips_decodable, directories, cwd >>
invocation == << entry, args >>
locals == << tweet_text, news_title, news_url, media_path, image_call >>
helper == << fn_in, fn_out >>
vars == << world, disk, generator, pc, invocation, locals, result, escaped, calls,
           helper >>

\* the positions inside generate_image_with_text
Composing == { "rendering", "seeded", "drawing" }

\* date = None reads the clock
date_or_today(date) == IF date = Nothing THEN today ELSE date[1]

index_call(total, date, idx) ==
    [fn |-> "deterministic_index", total |-> total, date |-> date, result |-> idx]

Log(r, entries) == calls' = [calls EXCEPT ![r] = @ \o entries]

\* the calls of run r to the functions named
CallsTo(r, names) == SelectSeq(calls[r], LAMBDA c : c.fn \in names)

\* an exception that nothing in the entry point catches
Raise(r, exception, entries) ==
    /\ pc' = [pc EXCEPT ![r] = "raised"]
    /\ escaped' = [escaped EXCEPT ![r] = Just([exception |-> exception, stage |-> pc[r]])]
    /\ Log(r, entries)

\* lines 447-455: main parses its command line; argparse leaves with
\* SystemExit(2) when --image-source is none of its choices
ParseArgs(r) ==
    /\ pc[r] = "argv"
    /\ IF args[r].image_source \in choices
       THEN /\ pc' = [pc EXCEPT ![r] = "content"]
            /\ UNCHANGED << escaped, calls >>
       ELSE Raise(r, "SystemExit(2)", << >>)
    /\ UNCHANGED << world, disk, generator, invocation, locals, result, helper >>

\* lines 363-368 and 369-374: the text of a tip post
TipContent(r, choice, entries) ==
    LET reads == read_tips_raises(tips_file, tips_decodable)
        now == date_or_today(Nothing)
    IN  IF reads # None
        THEN /\ Raise(r, reads, entries)
             /\ UNCHANGED tweet_text
        ELSE /\ tweet_text' = [tweet_text EXCEPT ![r] = build_tweet_text(choice.tip)]
             /\ Log(r, entries \o << index_call(choice.total, now, choice.idx) >>)
             /\ pc' = [pc EXCEPT ![r] = "media"]
             /\ UNCHANGED escaped

\* lines 355-374: the text, from the news or from a tip
SelectContent(r, responses) ==
    /\ pc[r] = "content"
    /\ LET topic == strip(args[r].news_topic)
           now == date_or_today(Nothing)
           imports == import_requests_raises(requests_installed)
       IN  IF topic = << >>
           THEN /\ TipContent(r, content_tip_choice(tips_file, now), << >>)
                /\ UNCHANGED << news_title, news_url >>
           ELSE IF imports # None
           THEN /\ Raise(r, imports, << [fn |-> "fetch_top_news", topic |-> topic,
                                          response |-> "import_failed",
                                          found |-> FALSE] >>)
                /\ UNCHANGED << tweet_text, news_title, news_url >>
           ELSE \E response \in responses :
                LET news == fetch_top_news(response)
                    lookup == [fn |-> "fetch_top_news", topic |-> topic,
                               response |-> response.status, found |-> news # Nothing]
                IN  IF news # Nothing
                    THEN /\ news_title' = [news_title EXCEPT ![r] = Just(news[1].title)]
                         /\ news_url' = [news_url EXCEPT ![r] = Just(news[1].link)]
                         /\ tweet_text' = [tweet_text EXCEPT ![r] =
                                build_news_tweet(news[1].title, news[1].link, topic)]
                         /\ Log(r, << lookup >>)
                         /\ pc' = [pc EXCEPT ![r] = "media"]
                         /\ UNCHANGED escaped
                    ELSE /\ TipContent(r, fallback_tip_choice(tips_file, now), << lookup >>)
                         /\ UNCHANGED << news_title, news_url >>
    /\ UNCHANGED << world, disk, generator, invocation, media_path, image_call, result, helper >>

\* lines 376-378 with images off: media_path stays None
SkipMedia(r) ==
    /\ pc[r] = "media"
    /\ ~media_enabled(args[r])
    /\ pc' = [pc EXCEPT ![r] = "deliver"]
    /\ UNCHANGED << world, disk, generator, invocation, locals, result, escaped, calls, helper >>

\* lines 382-390 and 232-240: the query of the image search, and whether
\* the search is sent.  The entry of the call keeps, as date, the day on
\* which line 391 made the call.  The tips file read here was read by SelectContent
\* in the same run, so that this read does not raise.
SearchImage(r) ==
    /\ pc[r] = "media"
    /\ media_enabled(args[r])
    /\ args[r].image_source = "google"
    /\ LET topic == strip(args[r].news_topic)
           now == date_or_today(Nothing)
           c == query_tip_choice(tips_file, now)
           candidate_tip == IF topic = << >> THEN Just(c.tip) ELSE Nothing
           query == derive_image_query(Just(args[r].image_query), news_title[r],
                                       or_none(topic), candidate_tip)
           path == desired_output(environ)
           before == IF topic = << >> THEN << index_call(c.total, now, c.idx) >> ELSE << >>
           imports == import_requests_raises(requests_installed)
           search(status) == [fn |-> "fetch_image_from_google", query |-> query,
                              output_path |-> path, date |-> now,
                              response |-> status,
                              fetched |-> FALSE, link |-> << >>]
       IN  /\ image_call' = [image_call EXCEPT ![r] =
                                Just([query |-> query, output_path |-> path,
                                      date |-> now])]
           /\ IF ~image_search_requested(environ)
              THEN /\ Log(r, before \o << search("not_requested") >>)
                   /\ pc' = [pc EXCEPT ![r] = "fallback"]
                   /\ UNCHANGED escaped
              ELSE IF imports # None
              THEN Raise(r, imports, before \o << search("import_failed") >>)
              ELSE /\ Log(r, before)
                   /\ pc' = [pc EXCEPT ![r] = "searching"]
                   /\ UNCHANGED escaped
    /\ UNCHANGED << world, disk, generator, invocation, tweet_text, news_title, news_url,
                    media_path, result, helper >>

\* lines 242-276 and 391: the answers to the search and to the download
\* have come, and open(output_path, "wb") leaves an empty file
ReceiveImage(r, responses) ==
    /\ pc[r] = "searching"
    /\ \E response \in responses :
       LET fetched == fetch_image_from_google(environ, response,
                                              can_write(environ, directories, cwd))
           search == [fn |-> "fetch_image_from_google", query |-> image_call[r][1].query,
                      output_path |-> image_call[r][1].output_path,
                      date |-> image_call[r][1].date,
                      response |-> response.status,
                      fetched |-> fetched # Nothing,
                      link |-> IF fetched # Nothing THEN fetched[1] ELSE << >>]
       IN  /\ Log(r, << search >>)
           /\ IF fetched # Nothing
              THEN /\ disk' = [disk EXCEPT ![search.output_path] = Just(empty_file)]
                   /\ pc' = [pc EXCEPT ![r] = "writing"]
              ELSE /\ pc' = [pc EXCEPT ![r] = "fallback"]
                   /\ UNCHANGED disk
    /\ UNCHANGED << world, generator, invocation, locals, result, escaped, helper >>

\* what a file holds once content was written from its start over held,
\* what it held: the content, followed by what of held lies beyond the
\* content's length if held is the longer.  The lengths are those of the
\* images, which the text, the seed or the link do not tell.
written_over(content, held) ==
    IF held = Nothing \/ held = Just(empty_file) \/ held = Just(content)
    THEN { content }
    ELSE { content, [content EXCEPT !.tail = held] }

\* lines 277-278 and 392-393: f.write(r.content) into the file opened, then
\* media_path = fetched
WriteImage(r) ==
    /\ pc[r] = "writing"
    /\ LET search == CallsTo(r, {"fetch_image_from_google"})[1]
           path == search.output_path
       IN  /\ \E file \in written_over(downloaded_image(search.link), disk[path]) :
                  disk' = [disk EXCEPT ![path] = Just(file)]
           /\ media_path' = [media_path EXCEPT ![r] = path]
    /\ pc' = [pc EXCEPT ![r] = "deliver"]
    /\ UNCHANGED << world, generator, invocation, tweet_text, news_title, news_url,
                    image_call, result, escaped, calls, helper >>

\* the text and the seed of the image to generate, with a read of the clock
Generate(r, image) ==
    /\ Log(r, << index_call(image.total, date_or_today(Nothing), image.seed) >>)
    /\ image_call' = [image_call EXCEPT ![r] =
                         Just([text |-> image.text, seed |-> image.seed,
                               output_path |-> desired_output(environ),
                               colors |-> << >>])]
    /\ pc' = [pc EXCEPT ![r] = "rendering"]
    /\ UNCHANGED << world, disk, generator, invocation, tweet_text, news_title, news_url,
                    media_path, result, escaped, helper >>

\* lines 395-405: the image search gave nothing
GenerateFallback(r) ==
    /\ pc[r] = "fallback"
    /\ Generate(r, fallback_image_args(args[r], news_title[r], tips_file,
                                       date_or_today(Nothing)))

\* lines 406-417: image_source is not "google"
GenerateImage(r) ==
    /\ pc[r] = "media"
    /\ media_enabled(args[r])
    /\ args[r].image_source # "google"
    /\ Generate(r, generated_image_args(args[r], news_title[r], tips_file,
                                        date_or_today(Nothing)))

\* line 106, reached with Pillow: pick_colors seeds the generator
SeedRandom(r) ==
    /\ pc[r] = "rendering"
    /\ PIL_AVAILABLE
    /\ generator' = Just([seed |-> image_call[r][1].seed, drawn |-> 0])
    /\ pc' = [pc EXCEPT ![r] = "seeded"]
    /\ UNCHANGED << world, disk, invocation, locals, result, escaped, calls, helper >>

\* lines 108-116: random.choice(base_hues) draws three bits from the
\* generator, as it is then, until they are an index of base_hues, one draw
\* a step; the colours are those of the hue at that index
ChooseHue(r) ==
    /\ pc[r] = "seeded"
    /\ generator[1].drawn < MaxDraws
    /\ LET bits == getrandbits(generator[1].seed, generator[1].drawn)
       IN  /\ generator' = Just([generator[1] EXCEPT !.drawn = @ + 1])
           /\ IF bits < Len(base_hues)
              THEN /\ image_call' = [image_call EXCEPT ![r] =
                          Just([@[1] EXCEPT !.colors = hsl_to_rgb(base_hues[bits + 1])])]
                   /\ pc' = [pc EXCEPT ![r] = "drawing"]
              ELSE UNCHANGED << image_call, pc >>
    /\ UNCHANGED << world, disk, invocation, tweet_text, news_title, news_url, media_path,
                    result, escaped, calls, helper >>

\* lines 120-123 without Pillow; with it lines 124-186, once the colours
\* were picked, up to the point where img.save has opened the file, which
\* leaves it empty
RenderImage(r) ==
    /\ pc[r] = IF PIL_AVAILABLE THEN "drawing" ELSE "rendering"
    /\ LET image == image_call[r][1]
           made == generate_image_with_text(PIL_AVAILABLE, image.output_path)
           raises == generate_image_raises(PIL_AVAILABLE,
                                           can_write(environ, directories, cwd))
           call == [fn |-> "generate_image_with_text", text |-> image.text,
                    output_path |-> image.output_path, seed |-> image.seed,
                    colors |-> image.colors,
                    made |-> IF raises # None THEN None ELSE made,
                    raised |-> raises]
       IN  IF raises # None
           THEN /\ Raise(r, raises, << call >>)
                /\ UNCHANGED << disk, media_path >>
           ELSE /\ Log(r, << call >>)
                /\ UNCHANGED escaped
                /\ IF made = None
                   THEN /\ media_path' = [media_path EXCEPT ![r] = None]
                        /\ pc' = [pc EXCEPT ![r] = "deliver"]
                        /\ UNCHANGED disk
                   ELSE /\ disk' = [disk EXCEPT ![image.output_path] = Just(empty_file)]
                        /\ pc' = [pc EXCEPT ![r] = "saving"]
                        /\ UNCHANGED media_path
    /\ UNCHANGED << world, generator, invocation, tweet_text, news_title, news_url,
                    image_call, result, helper >>

\* line 186 and lines 398-405, 409-417: img.save writes the image into the
\* file it opened, and media_path is the path generate_image_with_text
\* returns
SaveImage(r) ==
    /\ pc[r] = "saving"
    /\ LET call == CallsTo(r, {"generate_image_with_text"})[1]
       IN  /\ \E file \in written_over(rendered_image(call.text, call.colors),
                                      disk[call.output_path]) :
                  disk' = [disk EXCEPT ![call.output_path] = Just(file)]
           /\ media_path' = [media_path EXCEPT ![r] = call.made]
    /\ pc' = [pc EXCEPT ![r] = "deliver"]
    /\ UNCHANGED << world, generator, invocation, tweet_text, news_title, news_url,
                    image_call, result, escaped, calls, helper >>

\* lines 419-425
ReturnDryRun(r) ==
    /\ pc[r] = "deliver"
    /\ entry[r] = "run_daily_tweet"
    /\ ~posts(args[r])
    /\ result' = [result EXCEPT ![r] =
            Just([ok |-> TRUE, dry_run |-> TRUE, tweet_text |-> tweet_text[r],
                  media_path |-> media_path[r]])]
    /\ pc' = [pc EXCEPT ![r] = "done"]
    /\ UNCHANGED << world, disk, generator, invocation, locals, escaped, calls, helper >>

\* the file api.media_upload(media_path) reads, when post_to_twitter gets there
uploaded_file(path, files, e, outcome) ==
    IF truthy(path) /\ (e.raised = None \/ e.message = << "update_status" >>)
    THEN files[path] ELSE Nothing

\* lines 427-443
PostTweet(r, outcomes) ==
    /\ pc[r] = "deliver"
    /\ entry[r] = "run_daily_tweet"
    /\ posts(args[r])
    /\ \E outcome \in outcomes :
       LET e == post_to_twitter(media_path[r], environ, outcome)
       IN  /\ Log(r, << [fn |-> "post_to_twitter", status_text |-> tweet_text[r],
                         media_path |-> media_path[r],
                         uploaded |-> uploaded_file(media_path[r], disk, e, outcome),
                         raised |-> e.raised, message |-> e.message] >>)
           /\ result' = [result EXCEPT ![r] =
                IF e.raised # None
                THEN Just([ok |-> FALSE, dry_run |-> FALSE, tweet_text |-> tweet_text[r],
                           media_path |-> media_path[r], error |-> e.message])
                ELSE Just([ok |-> TRUE, dry_run |-> FALSE, tweet_text |-> tweet_text[r],
                           media_path |-> media_path[r]])]
    /\ pc' = [pc EXCEPT ![r] = "done"]
    /\ UNCHANGED << world, disk, generator, invocation, locals, escaped, helper >>

\* lines 529-536: a dry run of main prints the text and returns None
MainDryRun(r) ==
    /\ pc[r] = "deliver"
    /\ entry[r] = "main"
    /\ ~posts(args[r])
    /\ pc' = [pc EXCEPT ![r] = "done"]
    /\ UNCHANGED << world, disk, generator, invocation, locals, result, escaped, calls,
                    helper >>

\* lines 538-544: main posts; when post_to_twitter raised it prints the
\* error and leaves with sys.exit(1), else it returns None
MainPost(r, outcomes) ==
    /\ pc[r] = "deliver"
    /\ entry[r] = "main"
    /\ posts(args[r])
    /\ \E outcome \in outcomes :
       LET e == post_to_twitter(media_path[r], environ, outcome)
           post == [fn |-> "post_to_twitter", status_text |-> tweet_text[r],
                    media_path |-> media_path[r],
                    uploaded |-> uploaded_file(media_path[r], disk, e, outcome),
                    raised |-> e.raised, message |-> e.message]
       IN  IF e.raised # None
           THEN Raise(r, "SystemExit(1)", << post >>)
           ELSE /\ Log(r, << post >>)
                /\ pc' = [pc EXCEPT ![r] = "done"]
                /\ UNCHANGED escaped
    /\ UNCHANGED << world, disk, generator, invocation, locals, result, helper >>

\* midnight, while some run has a read of the clock ahead
Tick ==
    /\ ticks < MaxTicks
    /\ \E r \in DOMAIN pc :
          pc[r] \in {"argv", "content", "media", "searching", "fallback"}
    /\ today' = NextDay(today)
    /\ ticks' = ticks + 1
    /\ UNCHANGED << environ, PIL_AVAILABLE, requests_installed, tips_file, tips_decodable,
                    directories, cwd, disk, generator, pc, invocation, locals, result,
                    escaped, calls, helper >>

InitWorld ==
    /\ today \in StartDates
    /\ ticks = 0
    /\ \E host \in Hosts :
          /\ environ = host.environ
          /\ directories = host.directories
          /\ cwd = host.cwd
    /\ PIL_AVAILABLE \in BOOLEAN
    /\ requests_installed \in BOOLEAN
    /\ tips_file \in TipsFiles
    /\ tips_decodable \in (IF tips_file = Nothing THEN {TRUE} ELSE BOOLEAN)
    /\ disk = [p \in AllPaths |-> Nothing]
    /\ generator = Nothing

InitRuns(argset, n) ==
    /\ args \in [1..n -> argset]
    /\ entry = [r \in 1..n |-> "run_daily_tweet"]
    /\ pc = [r \in 1..n |-> "content"]
    /\ tweet_text = [r \in 1..n |-> << >>]
    /\ news_title = [r \in 1..n |-> Nothing]
    /\ news_url = [r \in 1..n |-> Nothing]
    /\ media_path = [r \in 1..n |-> None]
    /\ image_call = [r \in 1..n |-> Nothing]
    /\ result = [r \in 1..n |-> Nothing]
    /\ escaped = [r \in 1..n |-> Nothing]
    /\ calls = [r \in 1..n |-> << >>]

Init ==
    /\ InitWorld
    /\ InitRuns(ArgsSet, 1)
    /\ fn_in = Nothing
    /\ fn_out = << >>

Step(r) ==
    \/ SelectContent(r, NewsResponses)
    \/ SkipMedia(r)
    \/ SearchImage(r)
    \/ ReceiveImage(r, ImageResponses)
    \/ WriteImage(r)
    \/ GenerateFallback(r)
    \/ GenerateImage(r)
    \/ SeedRandom(r)
    \/ ChooseHue(r)
    \/ RenderImage(r)
    \/ SaveImage(r)
    \/ ReturnDryRun(r)
    \/ PostTweet(r, PostOutcomes)

\* one invocation of run_daily_tweet, and the clock
Next == Step(1) \/ Tick

Spec == Init /\ [][Next]_vars

---------------------------------------------------------------------------
(* main, the entry point of the command line: it repeats the stages of     *)
(* run_daily_tweet, returns no record and leaves with SystemExit where its *)
(* command line is refused or the post failed.                             *)

InitMain ==
    /\ InitWorld
    /\ args \in [1..1 -> ArgsSet]
    /\ entry = [r \in 1..1 |-> "main"]
    /\ pc = [r \in 1..1 |-> "argv"]
    /\ tweet_text = [r \in 1..1 |-> << >>]
    /\ news_title = [r \in 1..1 |-> Nothing]
    /\ news_url = [r \in 1..1 |-> Nothing]
    /\ media_path = [r \in 1..1 |-> None]
    /\ image_call = [r \in 1..1 |-> Nothing]
    /\ result = [r \in 1..1 |-> Nothing]
    /\ escaped = [r \in 1..1 |-> Nothing]
    /\ calls = [r \in 1..1 |-> << >>]
    /\ fn_in = Nothing
    /\ fn_out = << >>

NextMain ==
    \/ ParseArgs(1)
    \/ SelectContent(1, NewsResponses)
    \/ SkipMedia(1)
    \/ SearchImage(1)
    \/ ReceiveImage(1, ImageResponses)
    \/ WriteImage(1)
    \/ GenerateFallback(1)
    \/ GenerateImage(1)
    \/ SeedRandom(1)
    \/ ChooseHue(1)
    \/ RenderImage(1)
    \/ SaveImage(1)
    \/ MainDryRun(1)
    \/ MainPost(1, PostOutcomes)
    \/ Tick

SpecMain == InitMain /\ [][NextMain]_vars

---------------------------------------------------------------------------
(* Two invocations of run_daily_tweet at once, as two requests to          *)
(* api/tweet.py are: they share the environment and the files.             *)

\* how many runs overlap
Racers == 2

NoTopic == << >>
NewsTopic == << "A", "I" >>

RaceArgs ==
    { [dry_run |-> FALSE, no_image |-> FALSE, image_source |-> "generated",
       image_query |-> << >>, news_topic |-> NoTopic],
      [dry_run |-> FALSE, no_image |-> FALSE, image_source |-> "google",
       image_query |-> << >>, news_topic |-> NewsTopic],
      [dry_run |-> TRUE, no_image |-> FALSE, image_source |-> "generated",
       image_query |-> << >>, news_topic |-> NewsTopic],
      [dry_run |-> FALSE, no_image |-> TRUE, image_source |-> "google",
       image_query |-> << >>, news_topic |-> NoTopic] }

RaceNewsResponses ==
    { [status |-> "request_failed"],
      [status |-> "item", title |-> Just(Headline), link |-> Just(ImageLinkPage)] }

RaceImageResponses ==
    { [status |-> "request_failed"],
      [status |-> "ok", items |-> << Just(ImageLinkPng) >>, download_ok |-> TRUE],
      [status |-> "ok", items |-> << Just(ImageLinkPage) >>, download_ok |-> TRUE] }

RaceOutcomes == { "posted", "update_failed" }

InitRace ==
    /\ today \in StartDates
    /\ ticks = 0
    /\ environ = EnvAllSet
    /\ PIL_AVAILABLE = TRUE
    /\ requests_installed = TRUE
    /\ tips_file = Nothing
    /\ tips_decodable = TRUE
    /\ directories = {"/tmp"}
    /\ cwd = "/"
    /\ disk = [p \in AllPaths |-> Nothing]
    /\ generator = Nothing
    /\ InitRuns(RaceArgs, Racers)
    /\ fn_in = Nothing
    /\ fn_out = << >>

NextRace ==
    \/ Tick
    \/ \E r \in 1..Racers :
        \/ SelectContent(r, RaceNewsResponses)
        \/ SkipMedia(r)
        \/ SearchImage(r)
        \/ ReceiveImage(r, RaceImageResponses)
        \/ WriteImage(r)
        \/ GenerateFallback(r)
        \/ GenerateImage(r)
        \/ SeedRandom(r)
        \/ ChooseHue(r)
        \/ RenderImage(r)
        \/ SaveImage(r)
        \/ ReturnDryRun(r)
        \/ PostTweet(r, RaceOutcomes)

SpecRace == InitRace /\ [][NextRace]_vars

---------------------------------------------------------------------------
(* build_tweet_text and deterministic_index called on their own: fn_in is  *)
(* the call's arguments, fn_out the results of the calls made so far.      *)

\* how many times a helper is called with the same arguments
MaxCalls == 2

\* n characters, blank from place first to place last
BlankRun(n, first, last) ==
    [i \in 1..n |-> IF first <= i /\ i <= last THEN " " ELSE "a"]

\* the lengths of the tips tried: short, around the limit, long
TipLengths ==
    (0..2) \cup ((max_len - Len(hashtags) - 4)..(max_len - Len(hashtags) + 2))
           \cup {LongLen - 1, LongLen}

\* how many blanks end at the place where a long tip is cut
BlankRuns == {0, 1, 3, LongLen}

TipInputs ==
    { BlankRun(n, max_len - Len(hashtags) - g, max_len - Len(hashtags) - 1) :
        n \in TipLengths, g \in BlankRuns }

Totals == {-1, 0, 1, 7, 40, seed_modulus}

\* how many words a text given to wrap_text has at most
MaxWords == 3

\* the words of those texts: narrow, middling, wide
WrapWords == { << "i" >>, << "a", "b" >>, << "m", "m" >> }

\* the blanks between two words, and around the text
WrapSeparators == { << " " >>, << " ", "\n" >> }
WrapPaddings == { << >>, << " " >> }

WrapTexts ==
    { pad \o join(sep, words) \o pad :
        pad \in WrapPaddings, sep \in WrapSeparators,
        words \in UNION { [1..n -> WrapWords] : n \in 0..MaxWords } }

Draws ==
    [kind : {"monospace"}, advance : {0, 1}, bearing : {0}]
    \cup [kind : {"proportional"}, advance : {0}, bearing : {0, 1}]
    \cup [kind : {"last_word"}, advance : {1}, bearing : {0}]

MaxWidths == {-1, 0, 1, 3, 4, 6, 100}

FnInputs ==
    [fn : {"build_tweet_text"}, tip : TipInputs]
    \cup [fn : {"deterministic_index"}, total : Totals,
          date : {Nothing} \cup {Just(d) : d \in KnownDates}]
    \cup [fn : {"wrap_text"}, text : WrapTexts, draw : Draws, max_width : MaxWidths]

CallBuildTweetText ==
    /\ fn_in.fn = "build_tweet_text"
    /\ Len(fn_out) < MaxCalls
    /\ fn_out' = Append(fn_out, build_tweet_text(fn_in.tip))
    /\ UNCHANGED << world, disk, generator, pc, invocation, locals, result, escaped, calls, fn_in >>

CallDeterministicIndex ==
    /\ fn_in.fn = "deterministic_index"
    /\ Len(fn_out) < MaxCalls
    /\ LET date == date_or_today(fn_in.date)
       IN  fn_out' = Append(fn_out,
                index_call(fn_in.total, date, deterministic_index(fn_in.total, date)))
    /\ UNCHANGED << world, disk, generator, pc, invocation, locals, result, escaped, calls, fn_in >>

CallWrapText ==
    /\ fn_in.fn = "wrap_text"
    /\ Len(fn_out) < MaxCalls
    /\ fn_out' = Append(fn_out, wrap_text(fn_in.text, fn_in.draw, fn_in.max_width))
    /\ UNCHANGED << world, disk, generator, pc, invocation, locals, result, escaped, calls, fn_in >>

\* midnight, between two calls
Midnight ==
    /\ ticks < MaxTicks
    /\ today' = NextDay(today)
    /\ ticks' = ticks + 1
    /\ UNCHANGED << environ, PIL_AVAILABLE, requests_installed, tips_file, tips_decodable,
                    directories, cwd, disk, generator, pc, invocation, locals, result,
                    escaped, calls, helper >>

InitFn ==
    /\ today \in StartDates
    /\ ticks = 0
    /\ environ = EnvAllSet
    /\ PIL_AVAILABLE = TRUE
    /\ requests_installed = TRUE
    /\ tips_file = Nothing
    /\ tips_decodable = TRUE
    /\ directories = {"/tmp"}
    /\ cwd = "/"
    /\ disk = [p \in AllPaths |-> Nothing]
    /\ generator = Nothing
    /\ InitRuns(ArgsSet, 0)
    /\ fn_in \in FnInputs
    /\ fn_out = << >>

NextFn == CallBuildTweetText \/ CallDeterministicIndex \/ CallWrapText \/ Midnight

SpecFn == InitFn /\ [][NextFn]_vars

---------------------------------------------------------------------------
(* The claims.                                                             *)

\* the runs that returned a record
Returned == { r \in DOMAIN result : result[r] # Nothing }

\* C1: in every record run_daily_tweet returns (tip post, news post, news
\* lookup that fell back to a tip), tweet_text is at most 280 characters
\* long, link and hashtags included.
C1_TweetTextWithin280 ==
    \A r \in Returned : Len(result[r][1].tweet_text) <= 280

\* the part of the first n characters of tip that is left when the blanks at
\* its end are dropped: its length
TrimmedLength(tip, n) ==
    CHOOSE k \in 0..n : /\ k = 0 \/ ~IsSpace(tip[k])
                        /\ \A j \in (k + 1)..n : IsSpace(tip[j])

\* C2: build_tweet_text(tip) is tip, unchanged, followed by the hashtags when
\* len(tip) <= 280 - len(hashtags); otherwise it is the first
\* 280 - len(hashtags) - 1 characters of tip without the whitespace at their
\* end, then one ellipsis, then the hashtags; and it has at most 280
\* characters.
C2_BuildTweetText ==
    fn_in.fn = "build_tweet_text" =>
        \A i \in 1..Len(fn_out) :
            LET tip == fn_in.tip
                out == fn_out[i]
                budget == 280 - Len(hashtags)
                kept == TrimmedLength(tip, budget - 1)
            IN  /\ Len(out) <= 280
                /\ Len(tip) <= budget => out = tip \o hashtags
                /\ Len(tip) > budget =>
                      out = SubSeq(tip, 1, kept) \o << Ellipsis >> \o hashtags

\* a tip longer than the budget, with blanks where it is cut, was built
C2_Witness ==
    /\ fn_in.fn = "build_tweet_text"
    /\ Len(fn_in.tip) = LongLen
    /\ fn_in.tip[1] = "a"
    /\ IsSpace(fn_in.tip[280 - Len(hashtags) - 1])
    /\ Len(fn_out) > 0
    /\ Len(fn_out[1]) < 280
    /\ fn_out[1][Len(fn_out[1]) - Len(hashtags)] = Ellipsis

\* 256^n % total
RECURSIVE PowerMod(_, _)
PowerMod(n, total) == IF n = 0 THEN 1 % total ELSE (PowerMod(n - 1, total) * 256) % total

\* sum of bytes[i] * 256^(Len(bytes) - i), modulo total
RECURSIVE HashMod(_, _)
HashMod(bytes, total) ==
    IF bytes = << >> THEN 0
    ELSE (Head(bytes) * PowerMod(Len(bytes) - 1, total) + HashMod(Tail(bytes), total)) % total

\* C3: deterministic_index(total, date) is, for total > 0, the first 8 bytes
\* of the SHA-256 digest of the date, read as an unsigned integer, modulo
\* total, so that 0 <= index < total; calls with the same total and date
\* give the same index; for total = 0 it is 0.
C3_DeterministicIndex ==
    fn_in.fn = "deterministic_index" /\ fn_out # << >> =>
        LET last == fn_out[Len(fn_out)]
        IN  /\ last.total = fn_in.total
            /\ last.total > 0 =>
                  /\ last.result = HashMod(DigestFirst8(IsoFormatBytes(last.date)), last.total)
                  /\ 0 <= last.result /\ last.result < last.total
            /\ last.total = 0 => last.result = 0
            /\ \A i \in 1..Len(fn_out) :
                  fn_out[i].date = last.date => fn_out[i].result = last.result

\* the index of a given date, asked for twice with a midnight in between
C3_Witness ==
    /\ fn_in.fn = "deterministic_index"
    /\ fn_in.total = 40
    /\ fn_in.date # Nothing
    /\ ticks > 0
    /\ Len(fn_out) = 2
    /\ fn_out[1].result = fn_out[2].result
    /\ fn_out[1].result > 0

\* the runs given a news topic whose news lookup returned None
LookupGaveNothing ==
    { r \in DOMAIN pc : /\ strip(args[r].news_topic) # << >>
                        /\ calls[r] # << >>
                        /\ calls[r][1].fn = "fetch_top_news"
                        /\ calls[r][1].response # "import_failed"
                        /\ ~calls[r][1].found }

\* C4: when a news topic is given and the news lookup returns nothing, the
\* run does not end in an error there: it goes on with the text of the tip
\* post, the tip at today's index of the loaded tips plus the hashtags.
C4_NewsFallbackIsTipPost ==
    \A r \in LookupGaveNothing :
        /\ Len(calls[r]) >= 2
        /\ calls[r][2].fn = "deterministic_index"
        /\ tweet_text[r] =
              build_tweet_text(content_tip_choice(tips_file, calls[r][2].date).tip)

\* whether run r called post_to_twitter and it raised
PostRaised(r) ==
    \E i \in 1..Len(calls[r]) :
        calls[r][i].fn = "post_to_twitter" /\ calls[r][i].raised # None

\* C5: when no_image is true or image_source is "none", the run neither
\* searches for an image nor generates one, writes no image file, keeps and
\* returns media_path = None, and the missing image does not make it fail:
\* ok is false only when post_to_twitter raised.
C5_ImagesDisabled ==
    \A r \in DOMAIN pc :
        args[r].no_image \/ args[r].image_source = "none" =>
            /\ media_path[r] = None
            /\ CallsTo(r, {"fetch_image_from_google", "generate_image_with_text"}) = << >>
            /\ \A p \in DOMAIN disk : disk[p] = Nothing
            /\ result[r] # Nothing =>
                  /\ result[r][1].media_path = None
                  /\ result[r][1].ok = ~PostRaised(r)

\* a run with image_source = "none" and Pillow at hand posted without an image
C5_Witness ==
    \E r \in Returned :
        /\ ~args[r].no_image
        /\ args[r].image_source = "none"
        /\ PIL_AVAILABLE
        /\ result[r][1].ok
        /\ ~result[r][1].dry_run
        /\ result[r][1].media_path = None

\* C6: with images enabled, whatever the image search does (no credentials,
\* no results, a network error, success), the media stage does not abort the
\* run: it ends with media_path an image file that was written, or with
\* media_path = None, and that only when Pillow is not available.
C6_ImageFallbackChain ==
    \A r \in DOMAIN pc :
        ~args[r].no_image /\ args[r].image_source # "none" =>
            /\ escaped[r] = Nothing \/ escaped[r][1].stage = "content"
            /\ pc[r] \in {"deliver", "done"} =>
                  /\ media_path[r] = None => ~PIL_AVAILABLE
                  /\ media_path[r] # None =>
                        /\ media_path[r] = desired_output(environ)
                        /\ disk[media_path[r]] # Nothing
            /\ result[r] # Nothing => result[r][1].media_path = media_path[r]

\* C7: a run with image_source = "google" whose image search fails calls
\* generate_image_with_text with the text, the seed and the output path that
\* the run with image_source = "generated" and the same other inputs passes,
\* and ends with the same media_path.  The run with image_source =
\* "generated" reaches lines 406-417 where this run reaches line 391, so
\* that it reads the clock on the day the search was called; and it calls
\* generate_image_with_text whatever the search would have done, so that a
\* run whose search failed and which is past its media stage has made that
\* call.
C7_FallbackSameAsGenerated ==
    \A r \in DOMAIN pc :
        args[r].image_source = "google" =>
            /\ \A i \in 1..Len(calls[r]) :
                  calls[r][i].fn = "generate_image_with_text" =>
                      \E j \in 1..(i - 1) :
                          /\ calls[r][j].fn = "fetch_image_from_google"
                          /\ ~calls[r][j].fetched
            /\ \A j \in 1..Len(calls[r]) :
                  (calls[r][j].fn = "fetch_image_from_google" /\ ~calls[r][j].fetched) =>
                      LET direct == generated_image_args(
                                        [args[r] EXCEPT !.image_source = "generated"],
                                        news_title[r], tips_file, calls[r][j].date)
                          path == desired_output(environ)
                          made == generate_image_with_text(PIL_AVAILABLE, path)
                          composed == { i \in (j + 1)..Len(calls[r]) :
                                          calls[r][i].fn = "generate_image_with_text" }
                      IN  /\ pc[r] \in {"deliver", "done", "raised"} => composed # {}
                          /\ \A i \in composed :
                                /\ calls[r][i].text = direct.text
                                /\ calls[r][i].seed = direct.seed
                                /\ calls[r][i].output_path = path
                                /\ calls[r][i].raised =
                                       generate_image_raises(PIL_AVAILABLE,
                                           can_write(environ, directories, cwd))
                          /\ pc[r] \in {"deliver", "done"} => media_path[r] = made
                          /\ result[r] # Nothing => result[r][1].media_path = made

\* C8: a run with dry_run = true never calls post_to_twitter, with or
\* without the credentials, and the record it returns has ok = true,
\* dry_run = true and the tweet_text and media_path of its content and media
\* stages.
C8_DryRunNeverPosts ==
    \A r \in DOMAIN pc :
        args[r].dry_run =>
            /\ CallsTo(r, {"post_to_twitter"}) = << >>
            /\ pc[r] = "done" => result[r] # Nothing
            /\ result[r] # Nothing =>
                  result[r][1] = [ok |-> TRUE, dry_run |-> TRUE,
                                  tweet_text |-> tweet_text[r],
                                  media_path |-> media_path[r]]

\* a dry run without the credentials returned a text and an image
C8_Witness ==
    \E r \in Returned :
        /\ args[r].dry_run
        /\ Unset(environ, "TWITTER_API_SECRET")
        /\ result[r][1].ok
        /\ result[r][1].media_path # None
        /\ Len(result[r][1].tweet_text) > Len(hashtags)

\* C9: a run with dry_run = false ends by returning a record, never by an
\* exception leaving run_daily_tweet; ok is false exactly when
\* post_to_twitter raised, error is then its message, and tweet_text and
\* media_path are those of the content and media stages.
C9_OnlyPostFailureFails ==
    \A r \in DOMAIN pc :
        ~args[r].dry_run =>
            /\ escaped[r] = Nothing
            /\ pc[r] = "done" => result[r] # Nothing
            /\ result[r] # Nothing =>
                  LET post == CallsTo(r, {"post_to_twitter"})
                  IN  /\ Len(post) = 1
                      /\ result[r][1].ok = (post[1].raised = None)
                      /\ ~result[r][1].ok => result[r][1].error = post[1].message
                      /\ result[r][1].tweet_text = tweet_text[r]
                      /\ result[r][1].media_path = media_path[r]

\* the image run r wrote: the one it generated, or else the one it downloaded
OwnImage(r) ==
    LET generated == SelectSeq(CallsTo(r, {"generate_image_with_text"}),
                               LAMBDA c : c.made # None)
        fetched == SelectSeq(CallsTo(r, {"fetch_image_from_google"}),
                             LAMBDA c : c.fetched)
    IN  IF generated # << >>
        THEN Just(rendered_image(generated[1].text, generated[1].colors))
        ELSE IF fetched # << >> THEN Just(downloaded_image(fetched[1].link))
        ELSE Nothing

\* C10: when two runs overlap, in any interleaving, the image file a run
\* hands to post_to_twitter holds the image that run generated or
\* downloaded, never one the other run wrote.
C10_OwnImageUploaded ==
    \A r \in DOMAIN pc :
        \A i \in 1..Len(calls[r]) :
            calls[r][i].fn = "post_to_twitter" /\ calls[r][i].uploaded # Nothing =>
                calls[r][i].uploaded = OwnImage(r)
\* the words of the lines, concatenated in line order
RECURSIVE WordsOf(_)
WordsOf(lines) ==
    IF lines = << >> THEN << >> ELSE split(Head(lines)) \o WordsOf(Tail(lines))

\* the width wrap_text computes from a box
TextWidth(draw, text) == textbbox(draw, text)[3] - textbbox(draw, text)[1]

\* every word wider than max_width is a line by itself
WideWordsAlone(lines, draw, max_width) ==
    \A i \in 1..Len(lines) :
        \A k \in 1..Len(split(lines[i])) :
            TextWidth(draw, split(lines[i])[k]) > max_width =>
                lines[i] = split(lines[i])[k]

\* the draw never measures a run of the words, joined by single blanks,
\* narrower than one of the words of the run
NeverNarrower(draw, words) ==
    \A i \in 1..Len(words) : \A j \in i..Len(words) : \A k \in i..j :
        TextWidth(draw, join(<< " " >>, SubSeq(words, i, j))) >= TextWidth(draw, words[k])

\* C11, as stated: for every text, every draw and every max_width, the words
\* of the lines wrap_text returns, in line order, are the words of the text
\* in their order, and every word wider than max_width is on a line of its
\* own.
C11_WrapTextKeepsWords ==
    fn_in # Nothing /\ fn_in.fn = "wrap_text" =>
        \A i \in 1..Len(fn_out) :
            /\ WordsOf(fn_out[i]) = split(fn_in.text)
            /\ WideWordsAlone(fn_out[i], fn_in.draw, fn_in.max_width)

\* C11, amended: for every text, every draw and every max_width, the words
\* of the lines wrap_text returns, in line order, are the words of the text
\* in their order; and every word wider than max_width is on a line of its
\* own when the draw never measures a run of words narrower than one of
\* its words.
C11_WrapTextKeepsWordsMonotone ==
    fn_in # Nothing /\ fn_in.fn = "wrap_text" =>
        \A i \in 1..Len(fn_out) :
            /\ WordsOf(fn_out[i]) = split(fn_in.text)
            /\ NeverNarrower(fn_in.draw, split(fn_in.text)) =>
                  WideWordsAlone(fn_out[i], fn_in.draw, fn_in.max_width)

\* three words in the proportional font, the middle one wider than
\* max_width and the other two fitting one line together: three lines
C11_Witness ==
    /\ fn_in # Nothing /\ fn_in.fn = "wrap_text"
    /\ fn_in.draw.kind = "proportional"
    /\ fn_in.max_width = 4
    /\ split(fn_in.text) = << << "i" >>, << "m", "m" >>, << "i" >> >>
    /\ fn_out # << >>
    /\ fn_out[1] = << << "i" >>, << "m", "m" >>, << "i" >> >>

\* the call of deterministic_index that selected the tip of run r's text:
\* the first one the run made
SelectionCall(r) ==
    LET made == {i \in 1..Len(calls[r]) : calls[r][i].fn = "deterministic_index"}
    IN  calls[r][Nth(made, 1)]

\* C12: whenever a run calls generate_image_with_text, in a tip post (no
\* topic, or a news lookup that gave nothing) the seed is the index that
\* selected the tip of the tweet text and the text is that tip; in a news
\* post the text is the headline, or the topic when the headline is empty,
\* and the seed is the index deterministic_index gives for the day.
C12_ImageOfThePost ==
    \A r \in DOMAIN pc :
        \A i \in 1..Len(calls[r]) :
            calls[r][i].fn = "generate_image_with_text" =>
                IF news_title[r] # Nothing
                THEN /\ calls[r][i].text =
                            text_or(news_title[r], strip(args[r].news_topic))
                     /\ calls[r][i].seed =
                            deterministic_index(seed_modulus, calls[r][i - 1].date)
                ELSE /\ calls[r][i].seed = SelectionCall(r).result
                     /\ calls[r][i].text =
                            load_tips(tips_file)[SelectionCall(r).result + 1]

\* C13: in one run fetch_top_news, fetch_image_from_google and
\* post_to_twitter are each called at most once; a news lookup that failed
\* is followed directly by the tip fallback (the tips are read and one is
\* selected), an image search that failed directly by the generated image;
\* post_to_twitter is the last call of the run, made after the text and the
\* media were settled, and when it raised the run returns the error record.
C13_SingleAttempt ==
    \A r \in DOMAIN pc :
        /\ Len(CallsTo(r, {"fetch_top_news"})) <= 1
        /\ Len(CallsTo(r, {"fetch_image_from_google"})) <= 1
        /\ Len(CallsTo(r, {"post_to_twitter"})) <= 1
        /\ \A i \in 1..Len(calls[r]) :
              /\ calls[r][i].fn = "fetch_top_news" /\ ~calls[r][i].found =>
                    IF i = Len(calls[r])
                    THEN /\ calls[r][i].response # "import_failed"
                         /\ escaped[r] # Nothing
                         /\ escaped[r][1].exception =
                                read_tips_raises(tips_file, tips_decodable)
                    ELSE calls[r][i + 1].fn = "deterministic_index"
              /\ calls[r][i].fn = "fetch_image_from_google" /\ ~calls[r][i].fetched =>
                    IF i = Len(calls[r]) THEN pc[r] = "fallback"
                    ELSE /\ calls[r][i + 1].fn = "deterministic_index"
                         /\ IF i + 1 = Len(calls[r]) THEN pc[r] \in Composing
                            ELSE calls[r][i + 2].fn = "generate_image_with_text"
              /\ calls[r][i].fn = "post_to_twitter" =>
                    /\ i = Len(calls[r])
                    /\ pc[r] = "done"
                    /\ tweet_text[r] # << >>
                    /\ media_enabled(args[r]) =>
                          \E j \in 1..(i - 1) :
                              \/ calls[r][j].fn = "generate_image_with_text"
                              \/ /\ calls[r][j].fn = "fetch_image_from_google"
                                 /\ calls[r][j].fetched
                    /\ result[r] # Nothing
                    /\ result[r][1].ok = (calls[r][i].raised = None)
                    /\ ~result[r][1].ok => result[r][1].error = calls[r][i].message

===========================================================================
